---------------------------- MODULE Spec2Model ----------------------------
(***************************************************************************)
(* Model of the authentication service (src/auth.service.js) over the      *)
(* users table (src/unnamed/part_000, User.init).                          *)
(*                                                                         *)
(* Every service method is an async function; it can be interleaved with   *)
(* other requests at each `await` of a store call.  A method is therefore  *)
(* modelled as one action per store call: the read that loads the Sequelize *)
(* instance (kept in calls[p].user, a snapshot of the row), and the write   *)
(* that saves the fields given to instance.update().  Time is the wall      *)
(* clock in milliseconds, advanced by Tick.                                 *)
(***************************************************************************)
EXTENDS Integers, Sequences, FiniteSets, TLC

VARIABLES
    users,      \* the users table: row i has primary key i (autoIncrement)
    now,        \* Date.now(), in milliseconds
    calls,      \* calls[p]: the request process p is executing, or the
                \* outcome of the request it executed last
    rand,       \* number of crypto.randomBytes(32) values drawn so far
    failedCalls, \* history: wrong-password logins returned per account since
                \* its counter was last written to 0
    tokenLog    \* history: the reset tokens that changed a password
                \* (consumed), those a later request overwrote (superseded),
                \* and the verification tokens that verified an account
                \* (verified), and the password each account was given last
                \* (password)

VARIABLES
    requestCounts,  \* rateLimiter: the Map from client id to {count, resetTime}
    passed,         \* history: per client, the times of the requests that
                    \* the limiter passed on to next()
    market,         \* CreativeWorksMarketplace: the storage of the contract
    tx,             \* the call frames of the transaction being executed
    ipr,            \* IPRManagement: the storage of the contract
    pinningJob,     \* the PinningJob instance
    timers          \* the event loop: the intervals scheduled and the runs
                    \* of the pinning job made

(* the variables of the authentication service, but the clock *)
auth == <<users, calls, rand, failedCalls, tokenLog>>

(* the variables of the other components *)
others == <<requestCounts, passed, market, tx, ipr, pinningJob, timers>>

vars == <<users, now, calls, rand, failedCalls, tokenLog,
          requestCounts, passed, market, tx, ipr, pinningJob, timers>>

-----------------------------------------------------------------------------
(* Bounds of the model *)

MaxUsers == 2       \* rows the table may hold
MaxFailed == 6      \* wrong-password logins per account between two resets
MaxTicks == 4       \* clock ticks
MaxRand == 3        \* random tokens drawn
MaxDays == 7        \* days the clock runs when it ticks in days
MaxSteps == 4       \* ticks of the clock when it ticks within a lock
MaxWindows == 2     \* ticks of the clock when it ticks within a rate window
MaxPassed == 12     \* requests the rate limiter passes on, all clients
MaxWorks == 2       \* works published in the marketplace
MaxInner == 1       \* calls a seller makes from one payment callback
MaxIPs == 2         \* intellectual properties registered
MaxTransfers == 2   \* transfers of ownership, all properties
MaxTimers == 4      \* intervals the pinning job schedules
MaxRuns == 6        \* runs of the pinning job

Usernames == {"alice", "bob"}
Emails == {"a@x.com", "b@x.com"}
Passwords == {<<"Abcd1234">>, <<"Wxyz5678">>}
Wallets == {"0x1111"}

(* the addresses requests come from *)
Clients == {"10.0.0.1", "10.0.0.2"}

(* strictRateLimiter = rateLimiter(5 * 60 * 1000, 10) *)
strictWindowMs == 300000
strictMaxRequests == 10

(* a password of 72 bytes, and one of 80 bytes that begins with it; both
   pass the validation of a password, which sets no maximal length *)
Password72 == [i \in 1..9 |-> IF i = 1 THEN "Abcd1234" ELSE "aaaaaaaa"]
Password80 == Password72 \o <<"bbbbbbbb">>
LongPasswords == {<<"Abcd1234">>, Password72, Password80}

-----------------------------------------------------------------------------
(* Nullable values: null is the empty tuple, a value v is <<v>>. *)

None == <<>>
Some(v) == <<v>>
IsNull(o) == o = None
Val(o) == o[1]

-----------------------------------------------------------------------------
(* Program constants *)

saltRounds == 12
jwtExpiry == 86400000
refreshTokenExpiry == 604800000
maxAttempts == 5
lockTime == 900000
resetTime == 3600000

(* One tick of the clock *)
Quantum == lockTime

(* One tick of the clock where it ticks in days *)
Day == jwtExpiry

(* One tick of the clock where it ticks within a lock: 4 min 40 s, so that a
   lock is met with 15 min, 10 min 20 s, 5 min 40 s and 1 min left *)
LockStep == (lockTime - 60000) \div 3

-----------------------------------------------------------------------------
(* Collaborators *)

(* A password is the sequence of its bytes, written in blocks of 8.  bcrypt
   uses the first 72 bytes of its input and ignores the rest. *)
BcryptKey(plain) == SubSeq(plain, 1, IF Len(plain) > 9 THEN 9 ELSE Len(plain))

(* bcrypt.hash(plain, rounds) and bcrypt.compare(plain, hash) *)
BcryptHash(plain, rounds) ==
    [alg |-> "bcrypt", cost |-> rounds, of |-> BcryptKey(plain)]
BcryptCompare(plain, hash) == hash.of = BcryptKey(plain)

(* jwt.sign(payload, secret, {expiresIn}) at time t *)
JwtSign(payload, ttl, t) ==
    [payload |-> payload, secret |-> "jwtSecret", iat |-> t, exp |-> t + ttl]

(* mutant: every token is given the lifetime of an access token *)
JwtVerify_AccessLifetime(token, t) ==
    IF token.secret # "jwtSecret" THEN "invalid signature"
    ELSE IF t >= token.iat + jwtExpiry THEN "jwt expired"
    ELSE "ok"

(* mutant: once a password was reset, the tokens signed until then are
   refused *)
JwtVerify_Revoking(token, t) ==
    IF token.secret # "jwtSecret" \/ (tokenLog.consumed # {} /\ token.iat <= t)
    THEN "invalid signature"
    ELSE IF t >= token.exp THEN "jwt expired"
    ELSE "ok"

(* jwt.verify(token, secret) at time t: the signature is checked first, then
   the expiry (the token is expired from its exp on); "ok" gives the payload *)
JwtVerify(token, t) ==
    IF token.secret # "jwtSecret" THEN "invalid signature"
    ELSE IF t >= token.exp THEN "jwt expired"
    ELSE "ok"

(* crypto.randomBytes(32).toString('hex'): 256 random bits, modelled as a
   value never drawn before *)
RandomHex(n) == n + 1

(* mutant: the minutes are rounded down *)
CeilMinutes_Floor(ms) == ms \div 60000

(* Math.ceil(ms / 1000 / 60) *)
CeilMinutes(ms) == IF ms <= 0 THEN 0 - ((0 - ms) \div 60000)
                              ELSE (ms + 59999) \div 60000

-----------------------------------------------------------------------------
(* The users table (User.init) and the Sequelize calls the service makes *)

Ids == 1..Len(users)

(* User.create(fields) at time t: the new row; attributes not given take
   the column defaults (failedLoginAttempts 0, the nullable columns null),
   createdAt is the time of the insert *)
NewRow(id, fields, t) ==
    [id |-> id,
     username |-> fields.username,
     email |-> fields.email,
     password |-> fields.password,
     walletAddress |-> fields.walletAddress,
     isVerified |-> fields.isVerified,
     verificationToken |-> fields.verificationToken,
     failedLoginAttempts |-> 0,
     lockUntil |-> None,
     resetPasswordToken |-> None,
     resetPasswordExpires |-> None,
     createdAt |-> t]

(* User.findOne({where}), given the ids of the rows that match the where
   clause: the first of them in primary-key order, or null *)
FindOne(matching) ==
    IF matching = {} THEN None
    ELSE Some(users[CHOOSE i \in matching : \A j \in matching : i <= j])

(* the user id of a request comes from its access token: the id of an
   account, or the next id, which resolves to none *)
UserIds == 1..(Len(users) + 1)

(* User.findByPk(id) *)
FindByPk(id) == IF id \in Ids THEN Some(users[id]) ELSE None

(* mutant: the columns carry no unique index *)
ViolatesUnique_NoIndex(id, username, email) == FALSE

(* The unique indexes on username and email: would writing (username, email)
   to row id (0 for an insert) violate one of them? *)
ViolatesUnique(id, username, email) ==
    \E i \in Ids : i # id /\ (users[i].username = username \/ users[i].email = email)

(* instance.update(fields): UPDATE users SET fields WHERE id = instance.id.
   fields is a record of the columns to write; the other columns are kept. *)
SaveRow(id, fields) == [users EXCEPT ![id] = fields @@ @]

-----------------------------------------------------------------------------
(* Pure helpers of AuthService *)

PublicUser(user) ==
    [id |-> user.id, username |-> user.username, email |-> user.email,
     walletAddress |-> user.walletAddress, isVerified |-> user.isVerified]

(* generateTokens(user) at time t *)
generateTokens(user, t) ==
    [accessToken |-> JwtSign([id |-> user.id, username |-> user.username,
                              email |-> user.email,
                              walletAddress |-> user.walletAddress], jwtExpiry, t),
     refreshToken |-> JwtSign([id |-> user.id], refreshTokenExpiry, t),
     expiresIn |-> jwtExpiry]

(* mutant: the where clause tests the email only *)
RegisterMatch_EmailOnly(user, userData) == user.email = userData.email

(* the where clause of register: email OR username *)
RegisterMatch(user, userData) ==
    user.email = userData.email \/ user.username = userData.username

(* mutant: the lock test is left out *)
IsLocked_Skipped(user, t) == FALSE

(* the lock test of login: user.lockUntil && user.lockUntil > new Date() *)
IsLocked(user, t) == ~IsNull(user.lockUntil) /\ Val(user.lockUntil) > t

(* mutant: the threshold is compared with > instead of >= *)
handleFailedLogin_OffByOne(user, t) ==
    LET failedAttempts == user.failedLoginAttempts + 1
    IN [failedLoginAttempts |-> failedAttempts,
        lockUntil |-> IF failedAttempts > maxAttempts THEN Some(t + lockTime) ELSE None]

(* mutant: after a lock the count starts again at 1 *)
handleFailedLogin_FreshAfterExpiry(user, t) ==
    LET failedAttempts == IF IsNull(user.lockUntil)
                          THEN user.failedLoginAttempts + 1 ELSE 1
    IN [failedLoginAttempts |-> failedAttempts,
        lockUntil |-> IF failedAttempts >= maxAttempts THEN Some(t + lockTime) ELSE None]

(* handleFailedLogin(user) at time t: the fields it saves *)
handleFailedLogin(user, t) ==
    LET failedAttempts == user.failedLoginAttempts + 1
    IN [failedLoginAttempts |-> failedAttempts,
        lockUntil |-> IF failedAttempts >= maxAttempts THEN Some(t + lockTime) ELSE None]

(* mutant: a valid password clears the lock but not the counter *)
LoginSuccessFields_KeepCount == [lockUntil |-> None]

(* mutant: a valid password clears the counter but not the lock *)
LoginSuccessFields_KeepLock == [failedLoginAttempts |-> 0]

(* the fields login saves after a valid password *)
LoginSuccessFields == [failedLoginAttempts |-> 0, lockUntil |-> None]

(* mutant: a pending token is kept, only its expiry is renewed *)
RequestResetFields_KeepPending(user, resetToken, resetExpires) ==
    [resetPasswordToken |-> IF IsNull(user.resetPasswordToken) THEN Some(resetToken)
                            ELSE user.resetPasswordToken,
     resetPasswordExpires |-> Some(resetExpires)]

(* the fields requestPasswordReset saves *)
RequestResetFields(user, resetToken, resetExpires) ==
    [resetPasswordToken |-> Some(resetToken),
     resetPasswordExpires |-> Some(resetExpires)]

(* mutant: the expiry is compared with >= instead of > *)
ResetMatch_Inclusive(user, token, t) ==
    /\ user.resetPasswordToken = Some(token)
    /\ ~IsNull(user.resetPasswordExpires)
    /\ Val(user.resetPasswordExpires) >= t

(* the where clause of resetPassword *)
ResetMatch(user, token, t) ==
    /\ user.resetPasswordToken = Some(token)
    /\ ~IsNull(user.resetPasswordExpires)
    /\ Val(user.resetPasswordExpires) > t

(* mutant: the lockout is not lifted *)
ResetFields_KeepLock(hashedPassword) ==
    [password |-> hashedPassword,
     resetPasswordToken |-> None,
     resetPasswordExpires |-> None]

(* mutant: the token is cleared, its expiry is kept *)
ResetFields_KeepExpiry(hashedPassword) ==
    [password |-> hashedPassword,
     resetPasswordToken |-> None,
     failedLoginAttempts |-> 0,
     lockUntil |-> None]

(* mutant: the reset fields are not cleared *)
ResetFields_KeepToken(hashedPassword) ==
    [password |-> hashedPassword, failedLoginAttempts |-> 0, lockUntil |-> None]

(* the fields resetPassword saves *)
ResetFields(hashedPassword) ==
    [password |-> hashedPassword,
     resetPasswordToken |-> None,
     resetPasswordExpires |-> None,
     failedLoginAttempts |-> 0,
     lockUntil |-> None]

(* mutant: the lockout counters are kept *)
ChangePasswordFields_KeepLock(hashedPassword) == [password |-> hashedPassword]

(* mutant: a pending reset token is withdrawn *)
ChangePasswordFields_ClearReset(hashedPassword) ==
    [password |-> hashedPassword, failedLoginAttempts |-> 0, lockUntil |-> None,
     resetPasswordToken |-> None, resetPasswordExpires |-> None]

(* the fields changePassword saves *)
ChangePasswordFields(hashedPassword) ==
    [password |-> hashedPassword, failedLoginAttempts |-> 0, lockUntil |-> None]

(* mutant: an account that is verified matches any token *)
VerifyMatch_OrVerified(user, token) ==
    user.verificationToken = Some(token) \/ user.isVerified

(* the where clause of verifyEmail *)
VerifyMatch(user, token) == user.verificationToken = Some(token)

(* mutant: the token is not cleared *)
VerifyFields_FlagOnly == [isVerified |-> TRUE]

(* the fields verifyEmail saves *)
VerifyFields == [isVerified |-> TRUE, verificationToken |-> None]

(* mutant: the row is loaded with all its columns and returned as it is *)
ProfileUser_AllColumns(row) == row

(* getProfile: the row is loaded with the columns of `attributes` only, and
   the result lists those columns *)
ProfileUser(row) ==
    LET attributes == {"id", "username", "email", "walletAddress", "isVerified",
                       "createdAt"}
        user == [k \in attributes |-> row[k]]
    IN [id |-> user.id, username |-> user.username, email |-> user.email,
        walletAddress |-> user.walletAddress, isVerified |-> user.isVerified,
        createdAt |-> user.createdAt]

-----------------------------------------------------------------------------
(* Outcomes.  A method returns a result object ({success: true, ...}) or
   throws Error(`<context>: <message>`). *)

Ok(fields) == [success |-> TRUE] @@ fields
Fail(context, message) == [success |-> FALSE, context |-> context, message |-> message]

(* mutant: an unknown email gets an error of its own *)
LoginNoUser_Distinct == Fail("Authentication failed", "User not found")

LoginNoUser == Fail("Authentication failed", "Invalid credentials")
LoginBadPassword == Fail("Authentication failed", "Invalid credentials")
LoginLocked(user, t) ==
    [minutes |-> CeilMinutes(Val(user.lockUntil) - t)]
        @@ Fail("Authentication failed", "Account is locked")
RegisterConflict ==
    Fail("Registration failed", "User with this email or username already exists")
ResetInvalid == Fail("Password reset failed", "Invalid or expired reset token")
GenericResetMessage ==
    "If an account with this email exists, a password reset link has been sent"
VerifyInvalid == Fail("Email verification failed", "Invalid verification token")
RefreshFailed(message) == Fail("Token refresh failed", message)
ProfileNotFound == Fail("Failed to get profile", "User not found")
VerifyTokenFailed(message) == Fail("Token verification failed", message)

(* A frame calls[p] is [pc, req, ...]: req is the request (its op and
   arguments); a frame that waits for a store call also holds the locals of
   the method (user: the instance loaded); a frame at "returned" holds out. *)
Idle == [pc |-> "idle"]

(* p can take a request: it is executing none *)
Free(p) == calls[p].pc \in {"idle", "returned"}

(* the request of p returns (or throws) out *)
Return(p, frame, out) ==
    calls' = [calls EXCEPT ![p] = [out |-> out] @@ [frame EXCEPT !.pc = "returned"]]

(* a frame without the locals of the method *)
Slim(frame) == [pc |-> frame.pc, req |-> frame.req]

(* the request of p waits for its next store call *)
Await(p, frame) == calls' = [calls EXCEPT ![p] = frame]

(* p holds the outcome of a request op *)
Returned(p, op) == calls[p].pc = "returned" /\ calls[p].req.op = op

Procs == {1, 2}

-----------------------------------------------------------------------------
Init ==
    /\ users = <<>>
    /\ now = 0
    /\ calls = [p \in Procs |-> Idle]
    /\ rand = 0
    /\ failedCalls = [i \in 1..MaxUsers |-> 0]
    /\ requestCounts = [k \in Clients |-> None]
    /\ passed = [times |-> [k \in Clients |-> <<>>], res |-> None]
    /\ market = [totalWorksCount |-> 0, allWorks |-> <<>>, locked |-> FALSE]
    /\ tx = [stack |-> <<>>, receipt |-> None,
             acquired |-> [id \in 1..MaxWorks |-> 0]]
    /\ ipr = [ipCount |-> 0, ips |-> <<>>, ownershipHistory |-> <<>>,
              receipt |-> None]
    /\ pinningJob = [isRunning |-> FALSE, intervalId |-> None]
    /\ timers = [nextId |-> 1, active |-> {}, runs |-> 0, console |-> None]
    /\ tokenLog = [consumed |-> {}, superseded |-> {}, verified |-> {},
                   password |-> [i \in 1..MaxUsers |-> None]]

(* The clock.  A tick is far longer than a request takes: it falls between
   requests. *)
Tick ==
    /\ now < MaxTicks * Quantum
    /\ \A p \in Procs : Free(p)
    /\ now' = now + Quantum
    /\ UNCHANGED <<users, calls, rand, failedCalls, tokenLog, others>>

(* The clock within a lock *)
TickStep ==
    /\ now < MaxSteps * LockStep
    /\ \A p \in Procs : Free(p)
    /\ now' = now + LockStep
    /\ UNCHANGED <<users, calls, rand, failedCalls, tokenLog, others>>

(* The clock over the life of a reset token: one tick, of its lifetime *)
TickExpiry ==
    /\ now < resetTime
    /\ \A p \in Procs : Free(p)
    /\ now' = now + resetTime
    /\ UNCHANGED <<users, calls, rand, failedCalls, tokenLog, others>>

(* The clock over the lifetime of a token: it ticks in days *)
TickDay ==
    /\ now < MaxDays * Day
    /\ \A p \in Procs : Free(p)
    /\ now' = now + Day
    /\ UNCHANGED <<users, calls, rand, failedCalls, tokenLog, others>>

-----------------------------------------------------------------------------
(* register(userData) *)

RegisterFind(p, userData) ==
    /\ Free(p)
    /\ Len(users) + Cardinality({q \in Procs : calls[q].pc = "register_create"}) < MaxUsers
    /\ LET frame == [pc |-> "register_create",
                     req |-> [op |-> "register", userData |-> userData]]
           existingUser == FindOne({i \in Ids : RegisterMatch(users[i], userData)})
       IN IF ~IsNull(existingUser)
          THEN Return(p, frame, RegisterConflict)
          ELSE Await(p, frame)
    /\ UNCHANGED <<users, now, rand, failedCalls, tokenLog, others>>

RegisterCreate(p) ==
    /\ calls[p].pc = "register_create"
    /\ rand < MaxRand
    /\ LET userData == calls[p].req.userData
           hashedPassword == BcryptHash(userData.password, saltRounds)
           verificationToken == RandomHex(rand)
           user == NewRow(Len(users) + 1,
                          [username |-> userData.username,
                           email |-> userData.email,
                           password |-> hashedPassword,
                           walletAddress |-> userData.walletAddress,
                           verificationToken |-> Some(verificationToken),
                           isVerified |-> FALSE],
                          now)
       IN /\ rand' = rand + 1
          /\ IF ViolatesUnique(0, userData.username, userData.email)
             THEN /\ Return(p, calls[p], Fail("Registration failed", "Validation error"))
                  /\ UNCHANGED <<users, tokenLog>>
             ELSE /\ users' = Append(users, user)
                  /\ tokenLog' = [tokenLog EXCEPT !.password[user.id] =
                                      Some(userData.password)]
                  /\ Return(p, calls[p],
                            Ok([user |-> PublicUser(user),
                                tokens |-> generateTokens(user, now),
                                verificationToken |-> verificationToken]))
    /\ UNCHANGED <<now, failedCalls, others>>

-----------------------------------------------------------------------------
(* login(credentials) *)

LoginFind(p, credentials) ==
    /\ Free(p)
    /\ LET req == [op |-> "login", credentials |-> credentials]
           user == FindOne({i \in Ids : users[i].email = credentials.email})
       IN IF IsNull(user)
          THEN Return(p, [pc |-> "login_find", req |-> req], LoginNoUser)
          ELSE IF IsLocked(Val(user), now)
          THEN Return(p, [pc |-> "login_find", req |-> req], LoginLocked(Val(user), now))
          ELSE Await(p, [pc |-> "login_compare", req |-> req, user |-> Val(user)])
    /\ UNCHANGED <<users, now, rand, failedCalls, tokenLog, others>>

LoginCompare(p) ==
    /\ calls[p].pc = "login_compare"
    /\ LET user == calls[p].user
           isPasswordValid ==
               BcryptCompare(calls[p].req.credentials.password, user.password)
       IN IF ~isPasswordValid
          THEN /\ failedCalls[user.id] < MaxFailed
               /\ users' = SaveRow(user.id, handleFailedLogin(user, now))
               /\ failedCalls' = [failedCalls EXCEPT ![user.id] = @ + 1]
               /\ Return(p, calls[p], LoginBadPassword)
          ELSE /\ users' = SaveRow(user.id, LoginSuccessFields)
               /\ failedCalls' = [failedCalls EXCEPT ![user.id] = 0]
               /\ Return(p, calls[p], Ok([user |-> PublicUser(user),
                                          tokens |-> generateTokens(user, now)]))
    /\ UNCHANGED <<now, rand, tokenLog, others>>

-----------------------------------------------------------------------------
(* requestPasswordReset(email) *)

RequestResetFind(p, email) ==
    /\ Free(p)
    /\ LET req == [op |-> "requestPasswordReset", email |-> email]
           user == FindOne({i \in Ids : users[i].email = email})
       IN IF IsNull(user)
          THEN Return(p, [pc |-> "request_reset_find", req |-> req],
                      Ok([message |-> GenericResetMessage]))
          ELSE Await(p, [pc |-> "request_reset_update", req |-> req, user |-> Val(user)])
    /\ UNCHANGED <<users, now, rand, failedCalls, tokenLog, others>>

RequestResetUpdate(p) ==
    /\ calls[p].pc = "request_reset_update"
    /\ rand < MaxRand
    /\ LET user == calls[p].user
           resetToken == RandomHex(rand)
           resetExpires == now + resetTime
           old == users[user.id].resetPasswordToken
       IN /\ rand' = rand + 1
          /\ users' = SaveRow(user.id, RequestResetFields(user, resetToken, resetExpires))
          /\ tokenLog' = [tokenLog EXCEPT !.superseded =
                             IF IsNull(old) THEN @ ELSE @ \cup {Val(old)}]
          /\ Return(p, calls[p], Ok([message |-> GenericResetMessage,
                                     resetToken |-> resetToken]))
    /\ UNCHANGED <<now, failedCalls, others>>

-----------------------------------------------------------------------------
(* resetPassword(token, newPassword) *)

ResetFind(p, token, newPassword) ==
    /\ Free(p)
    /\ LET req == [op |-> "resetPassword", token |-> token, newPassword |-> newPassword]
           user == FindOne({i \in Ids : ResetMatch(users[i], token, now)})
       IN IF IsNull(user)
          THEN Return(p, [pc |-> "reset_find", req |-> req], ResetInvalid)
          ELSE Await(p, [pc |-> "reset_update", req |-> req, user |-> Val(user)])
    /\ UNCHANGED <<users, now, rand, failedCalls, tokenLog, others>>

ResetUpdate(p) ==
    /\ calls[p].pc = "reset_update"
    /\ LET user == calls[p].user
           hashedPassword == BcryptHash(calls[p].req.newPassword, saltRounds)
       IN /\ users' = SaveRow(user.id, ResetFields(hashedPassword))
          /\ failedCalls' = [failedCalls EXCEPT ![user.id] = 0]
          /\ tokenLog' = [tokenLog EXCEPT !.consumed = @ \cup {calls[p].req.token},
                                          !.password[user.id] =
                                              Some(calls[p].req.newPassword)]
          /\ Return(p, calls[p], Ok([message |-> "Password reset successfully"]))
    /\ UNCHANGED <<now, rand, others>>

-----------------------------------------------------------------------------
(* updateProfile(userId, updateData); a field of updateData that is
   undefined is None.  The controller passes {username, email,
   walletAddress} of the request body. *)

(* the truthiness test `updateData.username ? ... : ...` *)
Given(o) == ~IsNull(o) /\ Val(o) # ""

(* mutant: the account being updated is not excluded *)
UpdateMatch_IncludeSelf(user, userId, updateData) ==
    \/ Given(updateData.username) /\ user.username = Val(updateData.username)
    \/ Given(updateData.email) /\ user.email = Val(updateData.email)

(* the where clause of updateProfile: (username OR email) AND NOT id *)
UpdateMatch(user, userId, updateData) ==
    /\ \/ Given(updateData.username) /\ user.username = Val(updateData.username)
       \/ Given(updateData.email) /\ user.email = Val(updateData.email)
    /\ user.id # userId

(* the columns instance.update(updateData) writes: undefined values are
   left out *)
UpdateFields(updateData) ==
    LET keys == {k \in DOMAIN updateData : ~IsNull(updateData[k])}
    IN [k \in keys |-> Val(updateData[k])]

UpdateProfileFind(p, userId, updateData) ==
    /\ Free(p)
    /\ userId \in UserIds
    /\ LET req == [op |-> "updateProfile", userId |-> userId, updateData |-> updateData]
           user == FindByPk(userId)
       IN IF IsNull(user)
          THEN Return(p, [pc |-> "update_profile_find", req |-> req],
                      Fail("Failed to update profile", "User not found"))
          ELSE IF Given(updateData.username) \/ Given(updateData.email)
          THEN Await(p, [pc |-> "update_profile_check", req |-> req, user |-> Val(user)])
          ELSE Await(p, [pc |-> "update_profile_save", req |-> req, user |-> Val(user)])
    /\ UNCHANGED <<users, now, rand, failedCalls, tokenLog, others>>

UpdateProfileCheck(p) ==
    /\ calls[p].pc = "update_profile_check"
    /\ LET req == calls[p].req
           existingUser ==
               FindOne({i \in Ids : UpdateMatch(users[i], req.userId, req.updateData)})
       IN IF ~IsNull(existingUser)
          THEN Return(p, Slim(calls[p]), Fail("Failed to update profile",
                                              "Username or email already exists"))
          ELSE Await(p, [calls[p] EXCEPT !.pc = "update_profile_save"])
    /\ UNCHANGED <<users, now, rand, failedCalls, tokenLog, others>>

UpdateProfileSave(p) ==
    /\ calls[p].pc = "update_profile_save"
    /\ LET user == calls[p].user
           fields == UpdateFields(calls[p].req.updateData)
           updatedUser == fields @@ user
           row == fields @@ users[user.id]
       IN IF ViolatesUnique(user.id, row.username, row.email)
          THEN /\ Return(p, Slim(calls[p]),
                         Fail("Failed to update profile", "Validation error"))
               /\ UNCHANGED users
          ELSE /\ users' = SaveRow(user.id, fields)
               /\ Return(p, Slim(calls[p]), Ok([user |-> PublicUser(updatedUser)]))
    /\ UNCHANGED <<now, rand, failedCalls, tokenLog, others>>

-----------------------------------------------------------------------------
(* changePassword(userId, currentPassword, newPassword) *)

ChangePasswordFind(p, userId, currentPassword, newPassword) ==
    /\ Free(p)
    /\ userId \in UserIds
    /\ LET req == [op |-> "changePassword", userId |-> userId,
                   currentPassword |-> currentPassword, newPassword |-> newPassword]
           user == FindByPk(userId)
       IN IF IsNull(user)
          THEN Return(p, [pc |-> "change_password_find", req |-> req],
                      Fail("Failed to change password", "User not found"))
          ELSE Await(p, [pc |-> "change_password_compare", req |-> req,
                         user |-> Val(user)])
    /\ UNCHANGED <<users, now, rand, failedCalls, tokenLog, others>>

ChangePasswordCompare(p) ==
    /\ calls[p].pc = "change_password_compare"
    /\ LET user == calls[p].user
           isCurrentPasswordValid ==
               BcryptCompare(calls[p].req.currentPassword, user.password)
           hashedPassword == BcryptHash(calls[p].req.newPassword, saltRounds)
       IN IF ~isCurrentPasswordValid
          THEN /\ Return(p, calls[p], Fail("Failed to change password",
                                           "Current password is incorrect"))
               /\ UNCHANGED <<users, failedCalls, tokenLog>>
          ELSE /\ users' = SaveRow(user.id, ChangePasswordFields(hashedPassword))
               /\ failedCalls' = [failedCalls EXCEPT ![user.id] = 0]
               /\ tokenLog' = [tokenLog EXCEPT !.password[user.id] =
                                   Some(calls[p].req.newPassword)]
               /\ Return(p, calls[p], Ok([message |-> "Password changed successfully"]))
    /\ UNCHANGED <<now, rand, others>>

-----------------------------------------------------------------------------
(* refreshToken(refreshToken): jwt.verify is synchronous, findByPk is the
   one store call *)

RefreshFind(p, refreshToken) ==
    /\ Free(p)
    /\ LET frame == [pc |-> "refresh_find",
                     req |-> [op |-> "refreshToken", refreshToken |-> refreshToken]]
           verdict == JwtVerify(refreshToken, now)
           decoded == refreshToken.payload
           user == FindByPk(decoded.id)
       IN IF verdict # "ok"
          THEN Return(p, frame, RefreshFailed(verdict))
          ELSE IF IsNull(user)
          THEN Return(p, frame, RefreshFailed("User not found"))
          ELSE Return(p, frame, Ok([tokens |-> generateTokens(Val(user), now)]))
    /\ UNCHANGED <<users, now, rand, failedCalls, tokenLog, others>>

-----------------------------------------------------------------------------
(* verifyToken(token), which the authenticate middleware calls with the
   bearer token of a request: on success the request goes on as result.user *)

VerifyTokenFind(p, token) ==
    /\ Free(p)
    /\ LET frame == [pc |-> "verify_token_find",
                     req |-> [op |-> "verifyToken", token |-> token]]
           verdict == JwtVerify(token, now)
           decoded == token.payload
           user == FindByPk(decoded.id)
       IN IF verdict # "ok"
          THEN Return(p, frame, VerifyTokenFailed(verdict))
          ELSE IF IsNull(user)
          THEN Return(p, frame, VerifyTokenFailed("User not found"))
          ELSE Return(p, frame, Ok([user |-> PublicUser(Val(user))]))
    /\ UNCHANGED <<users, now, rand, failedCalls, tokenLog, others>>

-----------------------------------------------------------------------------
(* verifyEmail(token) *)

VerifyFind(p, token) ==
    /\ Free(p)
    /\ LET req == [op |-> "verifyEmail", token |-> token]
           user == FindOne({i \in Ids : VerifyMatch(users[i], token)})
       IN IF IsNull(user)
          THEN Return(p, [pc |-> "verify_find", req |-> req], VerifyInvalid)
          ELSE IF Val(user).isVerified
          THEN Return(p, [pc |-> "verify_find", req |-> req],
                      Ok([message |-> "Email already verified"]))
          ELSE Await(p, [pc |-> "verify_update", req |-> req, user |-> Val(user)])
    /\ UNCHANGED <<users, now, rand, failedCalls, tokenLog, others>>

VerifyUpdate(p) ==
    /\ calls[p].pc = "verify_update"
    /\ LET user == calls[p].user
       IN /\ users' = SaveRow(user.id, VerifyFields)
          /\ tokenLog' = [tokenLog EXCEPT !.verified = @ \cup {calls[p].req.token}]
          /\ Return(p, calls[p], Ok([message |-> "Email verified successfully"]))
    /\ UNCHANGED <<now, rand, failedCalls, others>>

-----------------------------------------------------------------------------
(* getProfile(userId) *)

GetProfileFind(p, userId) ==
    /\ Free(p)
    /\ userId \in UserIds
    /\ LET frame == [pc |-> "get_profile_find",
                     req |-> [op |-> "getProfile", userId |-> userId]]
           user == FindByPk(userId)
       IN IF IsNull(user)
          THEN Return(p, frame, ProfileNotFound)
          ELSE Return(p, frame, Ok([user |-> ProfileUser(Val(user))]))
    /\ UNCHANGED <<users, now, rand, failedCalls, tokenLog, others>>

-----------------------------------------------------------------------------
(* Inputs *)

Credentials(E, P) == [email : E, password : P]
UserData(U, E, P) == [username : U, email : E, password : P, walletAddress : Wallets]
Opt(S) == {None} \cup {Some(v) : v \in S}
UpdateData(U, E, W) == [username : Opt(U), email : Opt(E), walletAddress : Opt(W)]
Tokens == 1..MaxRand

(* The steps of the requests process p can make, with inputs over usernames
   U, emails E, passwords P and wallets W; anyId: the user id may be one
   that resolves to no account *)
Register(p, U, E, P) ==
    \/ \E userData \in UserData(U, E, P) : RegisterFind(p, userData)
    \/ RegisterCreate(p)

Login(p, E, P) ==
    \/ \E credentials \in Credentials(E, P) : LoginFind(p, credentials)
    \/ LoginCompare(p)

RequestPasswordReset(p, E) ==
    \/ \E email \in E : RequestResetFind(p, email)
    \/ RequestResetUpdate(p)

ResetPassword(p, P) ==
    \/ \E token \in Tokens, newPassword \in P : ResetFind(p, token, newPassword)
    \/ ResetUpdate(p)

UpdateProfile(p, U, E, W, anyId) ==
    \/ \E userId \in 1..MaxUsers, updateData \in UpdateData(U, E, W) :
           /\ anyId \/ userId \in Ids
           /\ UpdateProfileFind(p, userId, updateData)
    \/ UpdateProfileCheck(p)
    \/ UpdateProfileSave(p)

ChangePassword(p, P) ==
    \/ \E userId \in 1..MaxUsers, currentPassword \in P, newPassword \in P :
           ChangePasswordFind(p, userId, currentPassword, newPassword)
    \/ ChangePasswordCompare(p)

(* the refresh tokens signed for an account at a time of T, and the same
   tokens signed with a key that is not the server's *)
RefreshTokens(T) ==
    {JwtSign([id |-> i], refreshTokenExpiry, t) : i \in 1..MaxUsers, t \in T}
Forged(tokens) == {[token EXCEPT !.secret = "forged"] : token \in tokens}
Days == {d * Day : d \in 0..MaxDays}

(* a token presented was signed in the past, for an account or for one that
   does not exist *)
RefreshToken(p, T) ==
    \E refreshToken \in RefreshTokens(T) \cup Forged(RefreshTokens(T)) :
        /\ refreshToken.iat <= now
        /\ refreshToken.payload.id \in UserIds
        /\ RefreshFind(p, refreshToken)

(* the access tokens signed for an account at a time of T *)
AccessTokens(T) ==
    {JwtSign([id |-> i, username |-> u, email |-> e, walletAddress |-> w],
             jwtExpiry, t) :
        i \in 1..MaxUsers, u \in Usernames, e \in Emails, w \in Wallets, t \in T}

(* the tokens the service has handed out, as far as the outcomes of the
   last requests show them *)
HandedOut ==
    UNION {{calls[q].out.tokens.accessToken, calls[q].out.tokens.refreshToken} :
               q \in {r \in Procs : /\ calls[r].pc = "returned"
                                     /\ calls[r].out.success
                                     /\ "tokens" \in DOMAIN calls[r].out}}

(* a client presents a token it was handed, of either kind, as a refresh
   token or as the bearer token of a request *)
Bearer(p, T) ==
    \/ \E token \in RefreshTokens(T) \cup AccessTokens(T) :
           token \in HandedOut /\ RefreshFind(p, token)
    \/ \E token \in RefreshTokens(T) \cup AccessTokens(T) :
           token \in HandedOut /\ VerifyTokenFind(p, token)

VerifyEmail(p) ==
    \/ \E token \in Tokens : VerifyFind(p, token)
    \/ VerifyUpdate(p)

GetProfile(p) == \E userId \in 1..MaxUsers : GetProfileFind(p, userId)

(* The credential state machine of one account: requests do not overlap
   (one process), the account is alice's, b@x.com belongs to nobody *)
Next ==
    \/ Register(1, {"alice"}, {"a@x.com"}, Passwords)
    \/ Login(1, Emails, Passwords)
    \/ RequestPasswordReset(1, Emails)
    \/ ResetPassword(1, Passwords)
    \/ ChangePassword(1, Passwords)
    \/ Tick

Spec == Init /\ [][Next]_vars

(* Registration and profile updates of several accounts, requests
   interleaved at their store calls; the profile updated is that of an
   authenticated account *)
NextProfile ==
    \E p \in Procs :
        \/ Register(p, Usernames, Emails, {<<"Abcd1234">>})
        \/ UpdateProfile(p, Usernames, Emails, {}, FALSE)

SpecProfile == Init /\ [][NextProfile]_vars

(* Logins to one account, interleaved at their store calls *)
NextConc ==
    \E p \in Procs :
        \/ Register(p, {"alice"}, {"a@x.com"}, {<<"Abcd1234">>})
        \/ Login(p, {"a@x.com"}, Passwords)

SpecConc == Init /\ [][NextConc]_vars

(* Every request that writes an account, on one account that may change
   its username and email; requests do not overlap *)
NextAccount ==
    \/ Register(1, {"alice"}, {"a@x.com"}, {<<"Abcd1234">>})
    \/ VerifyEmail(1)
    \/ Login(1, Emails, Passwords)
    \/ RequestPasswordReset(1, Emails)
    \/ ResetPassword(1, {<<"Abcd1234">>})
    \/ ChangePassword(1, {<<"Abcd1234">>})
    \/ UpdateProfile(1, {"bob"}, {"b@x.com"}, {}, FALSE)

SpecAccount == Init /\ [][NextAccount]_vars

(* Registration, email verification and profile reads of several accounts,
   requests interleaved at their store calls *)
NextVerify ==
    \E p \in Procs :
        \/ Register(p, Usernames, Emails, {<<"Abcd1234">>})
        \/ VerifyEmail(p)
        \/ GetProfile(p)

SpecVerify == Init /\ [][NextVerify]_vars

(* The life of a refresh token: one account, requests that do not overlap,
   the clock ticking in days *)
NextToken ==
    \/ Register(1, {"alice"}, {"a@x.com"}, {<<"Abcd1234">>})
    \/ RequestPasswordReset(1, {"a@x.com"})
    \/ ResetPassword(1, {<<"Abcd1234">>})
    \/ ChangePassword(1, Passwords)
    \/ RefreshToken(1, Days)
    \/ TickDay

SpecToken == Init /\ [][NextToken]_vars

(* The tokens of one account and what they open, the clock ticking in days *)
NextBearer ==
    \/ Register(1, {"alice"}, {"a@x.com"}, {<<"Abcd1234">>})
    \/ Login(1, {"a@x.com"}, {<<"Abcd1234">>})
    \/ Bearer(2, Days)
    \/ TickDay

SpecBearer == Init /\ [][NextBearer]_vars

(* The passwords of one account, short and long, requests not overlapping *)
NextPassword ==
    \/ Register(1, {"alice"}, {"a@x.com"}, LongPasswords)
    \/ Login(1, {"a@x.com"}, LongPasswords)
    \/ RequestPasswordReset(1, {"a@x.com"})
    \/ ResetPassword(1, LongPasswords)
    \/ ChangePassword(1, LongPasswords)

SpecPassword == Init /\ [][NextPassword]_vars

(* no other request than one of p is in progress *)
Alone(p) == \A q \in Procs \ {p} : Free(q)

(* The owner of an account logs in, asks for a reset token and changes the
   password; the holder of the token, another caller, resets the password.
   Requests do not overlap. *)
NextOverride ==
    \/ \E userData \in UserData({"alice"}, {"a@x.com"}, {<<"Abcd1234">>}) :
           Alone(1) /\ RegisterFind(1, userData)
    \/ RegisterCreate(1)
    \/ \E credentials \in Credentials({"a@x.com"}, Passwords) :
           Alone(1) /\ LoginFind(1, credentials)
    \/ LoginCompare(1)
    \/ Alone(1) /\ RequestResetFind(1, "a@x.com")
    \/ RequestResetUpdate(1)
    \/ \E currentPassword \in Passwords, newPassword \in Passwords :
           Alone(1) /\ ChangePasswordFind(1, 1, currentPassword, newPassword)
    \/ ChangePasswordCompare(1)
    \/ \E token \in Tokens, newPassword \in Passwords :
           Alone(2) /\ ResetFind(2, token, newPassword)
    \/ ResetUpdate(2)
    \/ TickExpiry

SpecOverride == Init /\ [][NextOverride]_vars

(* Logins to one account while a lock runs down, requests not overlapping *)
NextLock ==
    \/ Register(1, {"alice"}, {"a@x.com"}, {<<"Abcd1234">>})
    \/ Login(1, {"a@x.com"}, Passwords)
    \/ TickStep

SpecLock == Init /\ [][NextLock]_vars

-----------------------------------------------------------------------------
(* The account a login request addresses, and what the request finds *)

AccountOf(email) == {i \in Ids : users[i].email = email}
LockPending(i) == ~IsNull(users[i].lockUntil) /\ Val(users[i].lockUntil) > now
InvalidCredentials ==
    [success |-> FALSE, context |-> "Authentication failed",
     message |-> "Invalid credentials"]

(* process p takes a request op in this step: the arguments are
   calls'[p].req *)
Begins(p, op) ==
    /\ Free(p)
    /\ calls'[p].pc # "idle"
    /\ calls'[p].req.op = op

(* C1: starting from a counter of 0, the k-th consecutive wrong-password
   login (failedCalls counts them) throws Invalid credentials and saves
   failedLoginAttempts = k; for k < 5 the account stays unlocked
   (lockUntil null), and the 5th saves lockUntil = now + 15 minutes, which
   locks the account. *)
C1_Step(p) ==
    LET user == calls[p].user
        i == user.id
        k == failedCalls[i]
    IN (/\ calls[p].pc = "login_compare"
        /\ user.password.of # calls[p].req.credentials.password
        /\ users[i].failedLoginAttempts = k
        /\ k < 5
        /\ LoginCompare(p))
       => /\ calls'[p].pc = "returned"
          /\ calls'[p].out = InvalidCredentials
          /\ failedCalls'[i] = k + 1
          /\ users'[i].failedLoginAttempts = k + 1
          /\ k + 1 < 5 => /\ users'[i].lockUntil = None
                          /\ ~LockPending(i)'
          /\ k + 1 = 5 => /\ users'[i].lockUntil = Some(now + 900000)
                          /\ LockPending(i)'

C1_LockoutThreshold == [][\A p \in Procs : C1_Step(p)]_vars

C1_Witness ==
    \E p \in Procs :
        /\ Returned(p, "login")
        /\ calls[p].out = InvalidCredentials
        /\ "user" \in DOMAIN calls[p]
        /\ calls[p].user.failedLoginAttempts = 4
        /\ failedCalls[calls[p].user.id] = 5
        /\ users[calls[p].user.id].failedLoginAttempts = 5
        /\ users[calls[p].user.id].lockUntil = Some(now + 900000)

(* C2: a login to an account whose lockUntil is in the future throws
   Account is locked whatever the password, returns no tokens and writes
   nothing; once lockUntil is not in the future any more the login goes on
   to the password check. *)
C2_Step(p) ==
    (Begins(p, "login") /\ LoginFind(p, calls'[p].req.credentials)) =>
        \A i \in AccountOf(calls'[p].req.credentials.email) :
            IF LockPending(i)
            THEN /\ calls'[p].pc = "returned"
                 /\ ~calls'[p].out.success
                 /\ calls'[p].out.message = "Account is locked"
                 /\ "tokens" \notin DOMAIN calls'[p].out
                 /\ users' = users
                 /\ failedCalls' = failedCalls
            ELSE calls'[p].pc = "login_compare"

C2_LockedLoginRejected == [][\A p \in Procs : C2_Step(p)]_vars

(* a locked account was given its correct password and refused *)
C2_Witness ==
    \E p \in Procs, i \in Ids :
        /\ Returned(p, "login")
        /\ ~calls[p].out.success
        /\ calls[p].out.message = "Account is locked"
        /\ calls[p].req.credentials.email = users[i].email
        /\ users[i].password.of = calls[p].req.credentials.password
        /\ LockPending(i)
        /\ users[i].failedLoginAttempts = 5

(* C3: no update of the counter is lost: the counter of an account equals
   the number of wrong-password logins returned since it was last 0, or the
   account is locked. *)
C3_NoLostUpdate ==
    \A i \in Ids :
        \/ users[i].failedLoginAttempts = failedCalls[i]
        \/ LockPending(i)

(* C4: a login with the valid password to an unlocked account with N < 5
   recorded failures returns success with a new access and refresh token of
   the account, and saves failedLoginAttempts = 0 and lockUntil = null. *)
C4_Step(p) ==
    LET user == calls[p].user
        i == user.id
    IN (/\ calls[p].pc = "login_compare"
        /\ user.password.of = calls[p].req.credentials.password
        /\ users[i].failedLoginAttempts < 5
        /\ LoginCompare(p))
       => /\ calls'[p].pc = "returned"
          /\ calls'[p].out.success
          /\ calls'[p].out.tokens.accessToken.payload.id = i
          /\ calls'[p].out.tokens.accessToken.exp = now + 86400000
          /\ calls'[p].out.tokens.refreshToken.payload = [id |-> i]
          /\ calls'[p].out.tokens.refreshToken.exp = now + 604800000
          /\ users'[i].failedLoginAttempts = 0
          /\ users'[i].lockUntil = None

C4_SuccessfulLoginResets == [][\A p \in Procs : C4_Step(p)]_vars

(* a valid login after 1 to 4 failures, and one with the counters clear *)
C4_Witness ==
    \E p \in Procs :
        /\ Returned(p, "login")
        /\ calls[p].out.success
        /\ "user" \in DOMAIN calls[p]
        /\ calls[p].user.failedLoginAttempts \in 1..4
        /\ users[calls[p].user.id].failedLoginAttempts = 0
        /\ users[calls[p].user.id].lockUntil = None

(* C5: no two accounts share a username, and no two share an email. *)
C5_UniqueIdentity ==
    \A i, j \in Ids :
        i # j => /\ users[i].username # users[j].username
                 /\ users[i].email # users[j].email

(* two accounts exist and a write that passed the service's own check was
   refused by a unique index *)
C5_Witness ==
    /\ Len(users) = 2
    /\ \E p \in Procs :
           /\ calls[p].pc = "returned"
           /\ ~calls[p].out.success
           /\ calls[p].out.message = "Validation error"

(* C6: register throws the conflict error when a row has the same email or
   the same username, and then writes nothing. *)
C6_Step(p) ==
    (/\ Begins(p, "register")
     /\ \E i \in Ids : \/ users[i].email = calls'[p].req.userData.email
                       \/ users[i].username = calls'[p].req.userData.username
     /\ RegisterFind(p, calls'[p].req.userData))
    => /\ calls'[p].pc = "returned"
       /\ calls'[p].out =
              [success |-> FALSE, context |-> "Registration failed",
               message |-> "User with this email or username already exists"]
       /\ users' = users

C6_RegisterConflict == [][\A p \in Procs : C6_Step(p)]_vars

(* a taken email was refused under a username nobody holds, and a taken
   username under an email nobody holds *)
C6_Witness ==
    \E p \in Procs, q \in Procs :
        /\ Returned(p, "register") /\ Returned(q, "register")
        /\ ~calls[p].out.success /\ ~calls[q].out.success
        /\ calls[p].out.message = "User with this email or username already exists"
        /\ calls[q].out.message = "User with this email or username already exists"
        /\ \E i \in Ids : users[i].email = calls[p].req.userData.email
        /\ \A i \in Ids : users[i].username # calls[p].req.userData.username
        /\ \E i \in Ids : users[i].username = calls[q].req.userData.username
        /\ \A i \in Ids : users[i].email # calls[q].req.userData.email

(* C7 as claimed: a login with an unknown email, or with a wrong password to
   an existing account, fails with Invalid credentials and nothing else. *)
C7_OriginalStep(p) ==
    LET credentials == calls'[p].req.credentials
    IN (/\ Begins(p, "login")
        /\ \/ AccountOf(credentials.email) = {}
           \/ \E i \in AccountOf(credentials.email) :
                  users[i].password.of # credentials.password
        /\ LoginFind(p, credentials))
       => (calls'[p].pc = "returned" => calls'[p].out = InvalidCredentials)

C7_Original == [][\A p \in Procs : C7_OriginalStep(p)]_vars

(* C7 amended: a login with an unknown email, and a login with a wrong
   password to an existing account that is not locked, throw the same
   Invalid credentials error; the latter throws nothing before the password
   check. *)
C7_FindStep(p) ==
    LET credentials == calls'[p].req.credentials
    IN (Begins(p, "login") /\ LoginFind(p, credentials)) =>
           /\ AccountOf(credentials.email) = {} =>
                  /\ calls'[p].pc = "returned"
                  /\ calls'[p].out = InvalidCredentials
           /\ \A i \in AccountOf(credentials.email) :
                  ~LockPending(i) => calls'[p].pc = "login_compare"

C7_CompareStep(p) ==
    (/\ calls[p].pc = "login_compare"
     /\ calls[p].user.password.of # calls[p].req.credentials.password
     /\ LoginCompare(p))
    => /\ calls'[p].pc = "returned"
       /\ calls'[p].out = InvalidCredentials

C7_SameErrorUnlessLocked ==
    [][\A p \in Procs : C7_FindStep(p) /\ C7_CompareStep(p)]_vars

(* an unknown email was refused with Invalid credentials *)
C7_Witness ==
    \E p \in Procs :
        /\ Returned(p, "login")
        /\ calls[p].out = InvalidCredentials
        /\ users # <<>>
        /\ AccountOf(calls[p].req.credentials.email) = {}

(* C8: once a reset token has changed a password, resetPassword with that
   token throws Invalid or expired reset token and writes nothing. *)
ResetRefused ==
    [success |-> FALSE, context |-> "Password reset failed",
     message |-> "Invalid or expired reset token"]

C8_Step(p) ==
    (/\ Begins(p, "resetPassword")
     /\ calls'[p].req.token \in tokenLog.consumed
     /\ ResetFind(p, calls'[p].req.token, calls'[p].req.newPassword))
    => /\ calls'[p].pc = "returned"
       /\ calls'[p].out = ResetRefused
       /\ users' = users

C8_ResetTokenSingleUse == [][\A p \in Procs : C8_Step(p)]_vars

C8_Witness ==
    \E p \in Procs :
        /\ Returned(p, "resetPassword")
        /\ calls[p].out = ResetRefused
        /\ calls[p].req.token \in tokenLog.consumed

(* C9: a reset token that a later request of the same account overwrote is
   refused; resetPassword goes on only with the token the account holds. *)
C9_Step(p) ==
    LET token == calls'[p].req.token
    IN (Begins(p, "resetPassword") /\ ResetFind(p, token, calls'[p].req.newPassword)) =>
           /\ token \in tokenLog.superseded =>
                  /\ calls'[p].pc = "returned"
                  /\ calls'[p].out = ResetRefused
           /\ calls'[p].pc = "reset_update" =>
                  users[calls'[p].user.id].resetPasswordToken = Some(token)

C9_LatestResetTokenOnly == [][\A p \in Procs : C9_Step(p)]_vars

(* T1 was refused while the account holds the later, unexpired T2 *)
C9_Witness ==
    \E p \in Procs, i \in Ids :
        /\ Returned(p, "resetPassword")
        /\ calls[p].out = ResetRefused
        /\ calls[p].req.token \in tokenLog.superseded \ tokenLog.consumed
        /\ ~IsNull(users[i].resetPasswordToken)
        /\ Val(users[i].resetPasswordToken) > calls[p].req.token
        /\ Val(users[i].resetPasswordExpires) > now

(* C10: resetPassword goes on to change the password only if a row holds
   the token with resetPasswordExpires strictly later than now; otherwise,
   also with the token a row holds, it throws Invalid or expired reset token
   and writes nothing. *)
C10_Step(p) ==
    LET token == calls'[p].req.token
    IN (Begins(p, "resetPassword") /\ ResetFind(p, token, calls'[p].req.newPassword)) =>
           IF \E i \in Ids : /\ users[i].resetPasswordToken = Some(token)
                             /\ users[i].resetPasswordExpires # None
                             /\ Val(users[i].resetPasswordExpires) > now
           THEN /\ calls'[p].pc = "reset_update"
                /\ users[calls'[p].user.id].resetPasswordToken = Some(token)
           ELSE /\ calls'[p].pc = "returned"
                /\ calls'[p].out = ResetRefused
                /\ users' = users

C10_ExpiredResetRefused == [][\A p \in Procs : C10_Step(p)]_vars

(* the token the account holds was refused at the moment of its expiry *)
C10_Witness ==
    \E p \in Procs, i \in Ids :
        /\ Returned(p, "resetPassword")
        /\ calls[p].out = ResetRefused
        /\ users[i].resetPasswordToken = Some(calls[p].req.token)
        /\ Val(users[i].resetPasswordExpires) = now

(* C11: a successful resetPassword saves the hash of the new password,
   resetPasswordToken = null, resetPasswordExpires = null,
   failedLoginAttempts = 0 and lockUntil = null: whatever the account was
   before, it is not locked after it. *)
C11_Step(p) ==
    LET i == calls[p].user.id
    IN (calls[p].pc = "reset_update" /\ ResetUpdate(p)) =>
           /\ calls'[p].pc = "returned"
           /\ calls'[p].out.success
           /\ users'[i].password =
                  [alg |-> "bcrypt", cost |-> 12, of |-> calls[p].req.newPassword]
           /\ users'[i].resetPasswordToken = None
           /\ users'[i].resetPasswordExpires = None
           /\ users'[i].failedLoginAttempts = 0
           /\ users'[i].lockUntil = None
           /\ ~LockPending(i)'

C11_ResetLiftsLockout == [][\A p \in Procs : C11_Step(p)]_vars

(* an account that was locked when the reset began has a new password and
   is unlocked *)
C11_Witness ==
    \E p \in Procs :
        /\ Returned(p, "resetPassword")
        /\ calls[p].out.success
        /\ "user" \in DOMAIN calls[p]
        /\ calls[p].user.failedLoginAttempts = 5
        /\ calls[p].user.lockUntil # None
        /\ Val(calls[p].user.lockUntil) > now
        /\ calls[p].user.password.of # calls[p].req.newPassword
        /\ users[calls[p].user.id].password.of = calls[p].req.newPassword
        /\ users[calls[p].user.id].lockUntil = None
        /\ users[calls[p].user.id].failedLoginAttempts = 0

(* C12: in every state, resetPasswordToken and resetPasswordExpires of an
   account are both null or both non-null. *)
C12_ResetFieldsPaired ==
    \A i \in Ids :
        (users[i].resetPasswordToken = None) <=> (users[i].resetPasswordExpires = None)

(* an account that was renamed holds a reset token and its expiry again,
   after a reset had cleared both *)
C12_Witness ==
    \E i \in Ids :
        /\ users[i].username = "bob"
        /\ tokenLog.consumed # {}
        /\ users[i].resetPasswordToken # None
        /\ Val(users[i].resetPasswordToken) \notin tokenLog.consumed
        /\ users[i].resetPasswordExpires = Some(now + 3600000)

(* C13: verifyEmail with the token an account holds sets isVerified = true
   and verificationToken = null; once that has happened no account holds the
   token again, and verifyEmail with it throws Invalid verification token
   and writes nothing. *)
VerifyRefused ==
    [success |-> FALSE, context |-> "Email verification failed",
     message |-> "Invalid verification token"]

C13_FindStep(p) ==
    LET token == calls'[p].req.token
    IN (Begins(p, "verifyEmail") /\ VerifyFind(p, token)) =>
           /\ (\E i \in Ids : users[i].verificationToken = Some(token)) =>
                  /\ calls'[p].pc = "verify_update"
                  /\ users[calls'[p].user.id].verificationToken = Some(token)
           /\ token \in tokenLog.verified =>
                  /\ calls'[p].pc = "returned"
                  /\ calls'[p].out = VerifyRefused
                  /\ users' = users

C13_UpdateStep(p) ==
    LET i == calls[p].user.id
    IN (calls[p].pc = "verify_update" /\ VerifyUpdate(p)) =>
           /\ calls'[p].pc = "returned"
           /\ calls'[p].out = [success |-> TRUE, message |-> "Email verified successfully"]
           /\ users'[i].isVerified
           /\ users'[i].verificationToken = None

C13_VerifyTokenSingleUse ==
    /\ [](\A i \in Ids : \A token \in tokenLog.verified :
              users[i].verificationToken # Some(token))
    /\ [][\A p \in Procs : C13_FindStep(p) /\ C13_UpdateStep(p)]_vars

(* the token that verified an account was presented again and refused *)
C13_Witness ==
    \E p \in Procs, i \in Ids :
        /\ Returned(p, "verifyEmail")
        /\ calls[p].out = VerifyRefused
        /\ calls[p].req.token \in tokenLog.verified
        /\ users[i].isVerified
        /\ users[i].verificationToken = None

(* C14: in every state an account that is verified has verificationToken =
   null, and the row register creates has isVerified = false and the
   verification token the call returns. *)
C14_CreateStep(p) ==
    (/\ calls[p].pc = "register_create"
     /\ RegisterCreate(p)
     /\ calls'[p].out.success)
    => /\ Len(users') = Len(users) + 1
       /\ users'[Len(users')].isVerified = FALSE
       /\ users'[Len(users')].verificationToken # None
       /\ users'[Len(users')].verificationToken = Some(calls'[p].out.verificationToken)

C14_TokenOnlyWhileUnverified ==
    /\ [](\A i \in Ids : users[i].isVerified => users[i].verificationToken = None)
    /\ [][\A p \in Procs : C14_CreateStep(p)]_vars

(* a verified account after its password was reset and its profile updated *)
C14_Witness ==
    \E i \in Ids :
        /\ users[i].isVerified
        /\ users[i].verificationToken = None
        /\ tokenLog.verified # {}
        /\ tokenLog.consumed # {}
        /\ users[i].email = "b@x.com"

(* C15: requestPasswordReset returns the same outcome whether or not the
   email belongs to an account: the success flag and the generic message,
   and nothing from which the two cases can be told apart. *)
C15_SameOutcome ==
    \A p \in Procs :
        Returned(p, "requestPasswordReset") =>
            calls[p].out =
                [success |-> TRUE,
                 message |-> "If an account with this email exists, a password reset link has been sent"]

(* C16: refreshToken with a token signed by the server and not expired
   returns a new access and refresh token of the account the token names,
   signed now, or throws User not found if there is no such account; a token
   that is expired or not signed by the server is refused.  It writes
   nothing, so the token presented is accepted again as long as the clock is
   before its expiry. *)
C16_Step(p) ==
    LET token == calls'[p].req.refreshToken
        i == token.payload.id
    IN (Begins(p, "refreshToken") /\ RefreshFind(p, token)) =>
           /\ calls'[p].pc = "returned"
           /\ UNCHANGED <<users, now, rand, failedCalls, tokenLog>>
           /\ IF token.secret = "jwtSecret" /\ now < token.iat + 604800000
              THEN IF i \in Ids
                   THEN /\ calls'[p].out.success
                        /\ calls'[p].out.tokens.accessToken =
                               [payload |-> [id |-> i, username |-> users[i].username,
                                             email |-> users[i].email,
                                             walletAddress |-> users[i].walletAddress],
                                secret |-> "jwtSecret", iat |-> now,
                                exp |-> now + 86400000]
                        /\ calls'[p].out.tokens.refreshToken =
                               [payload |-> [id |-> i], secret |-> "jwtSecret",
                                iat |-> now, exp |-> now + 604800000]
                   ELSE calls'[p].out =
                            [success |-> FALSE, context |-> "Token refresh failed",
                             message |-> "User not found"]
              ELSE ~calls'[p].out.success

C16_RefreshKeepsToken == [][\A p \in Procs : C16_Step(p)]_vars

(* the token register issued was accepted six days later, and gave a token
   that expires later than it *)
C16_Witness ==
    \E p \in Procs, i \in Ids :
        /\ Returned(p, "refreshToken")
        /\ calls[p].out.success
        /\ calls[p].req.refreshToken.payload.id = i
        /\ calls[p].req.refreshToken.iat = users[i].createdAt
        /\ calls[p].out.tokens.refreshToken.iat = users[i].createdAt + 6 * 86400000
        /\ calls[p].out.tokens.refreshToken.exp > calls[p].req.refreshToken.exp

(* C17: the refresh token register issued is accepted by refreshToken while
   it is not expired, also after changePassword or resetPassword have set
   another password (the account registers with Abcd1234). *)
C17_Step(p) ==
    LET token == calls'[p].req.refreshToken
        i == token.payload.id
    IN (/\ Begins(p, "refreshToken")
        /\ i \in Ids
        /\ token = [payload |-> [id |-> i], secret |-> "jwtSecret",
                    iat |-> users[i].createdAt,
                    exp |-> users[i].createdAt + 604800000]
        /\ now < token.exp
        /\ users[i].password.of # <<"Abcd1234">> \/ tokenLog.consumed # {}
        /\ RefreshFind(p, token))
       => /\ calls'[p].out.success
          /\ calls'[p].out.tokens.refreshToken.payload = [id |-> i]
          /\ calls'[p].out.tokens.refreshToken.exp = now + 604800000

C17_PasswordChangeKeepsTokens == [][\A p \in Procs : C17_Step(p)]_vars

(* the token register issued was accepted a day or more later, after a
   resetPassword (a reset token was consumed) and a changePassword (the
   password is one only changePassword sets) *)
C17_Witness ==
    \E p \in Procs, i \in Ids :
        /\ Returned(p, "refreshToken")
        /\ calls[p].out.success
        /\ calls[p].req.refreshToken.payload.id = i
        /\ calls[p].req.refreshToken.iat = users[i].createdAt
        /\ calls[p].out.tokens.refreshToken.iat > users[i].createdAt
        /\ calls[p].out.tokens.refreshToken.iat = now
        /\ tokenLog.consumed # {}
        /\ users[i].password.of = <<"Wxyz5678">>

(* C18: changePassword throws User not found when the id resolves to no
   account, and Current password is incorrect when the current password does
   not match the hash, writing nothing in both cases; otherwise it saves the
   hash of the new password, failedLoginAttempts = 0 and lockUntil = null,
   and no other column. *)
C18_FindStep(p) ==
    (/\ Begins(p, "changePassword")
     /\ ChangePasswordFind(p, calls'[p].req.userId, calls'[p].req.currentPassword,
                           calls'[p].req.newPassword))
    => /\ users' = users
       /\ IF calls'[p].req.userId \in Ids
          THEN calls'[p].pc = "change_password_compare"
          ELSE /\ calls'[p].pc = "returned"
               /\ calls'[p].out =
                      [success |-> FALSE, context |-> "Failed to change password",
                       message |-> "User not found"]

C18_CompareStep(p) ==
    LET i == calls[p].req.userId
        req == calls[p].req
    IN (calls[p].pc = "change_password_compare" /\ ChangePasswordCompare(p)) =>
           /\ calls'[p].pc = "returned"
           /\ IF users[i].password.of # req.currentPassword
              THEN /\ calls'[p].out =
                          [success |-> FALSE, context |-> "Failed to change password",
                           message |-> "Current password is incorrect"]
                   /\ users' = users
              ELSE /\ calls'[p].out.success
                   /\ users' = [users EXCEPT ![i] =
                          [@ EXCEPT !.password = [alg |-> "bcrypt", cost |-> 12,
                                                  of |-> req.newPassword],
                                    !.failedLoginAttempts = 0,
                                    !.lockUntil = None]]

C18_ChangePassword == [][\A p \in Procs : C18_FindStep(p) /\ C18_CompareStep(p)]_vars

(* the password of an account with recorded failures and a pending reset
   token was changed: the failures are cleared, the reset token is kept *)
C18_Witness ==
    \E p \in Procs :
        /\ Returned(p, "changePassword")
        /\ calls[p].out.success
        /\ "user" \in DOMAIN calls[p]
        /\ calls[p].user.failedLoginAttempts > 0
        /\ calls[p].req.newPassword # calls[p].req.currentPassword
        /\ users[calls[p].user.id].password.of = calls[p].req.newPassword
        /\ users[calls[p].user.id].failedLoginAttempts = 0
        /\ users[calls[p].user.id].lockUntil = None
        /\ users[calls[p].user.id].resetPasswordToken # None

(* C19: the collision check of updateProfile throws Username or email
   already exists, writing nothing, exactly when an account other than the
   one updated holds the username or the email requested; the account's own
   username and email are no collision.  No other step throws that error. *)
ProfileConflict ==
    [success |-> FALSE, context |-> "Failed to update profile",
     message |-> "Username or email already exists"]

HeldByOther(userId, updateData) ==
    \E i \in Ids :
        /\ i # userId
        /\ \/ updateData.username # None /\ users[i].username = Val(updateData.username)
           \/ updateData.email # None /\ users[i].email = Val(updateData.email)

C19_CheckStep(p) ==
    (calls[p].pc = "update_profile_check" /\ UpdateProfileCheck(p)) =>
        /\ users' = users
        /\ IF HeldByOther(calls[p].req.userId, calls[p].req.updateData)
           THEN /\ calls'[p].pc = "returned"
                /\ calls'[p].out = ProfileConflict
           ELSE calls'[p].pc = "update_profile_save"

C19_OtherStep(p) ==
    (/\ calls[p].pc # "update_profile_check"
     /\ calls'[p].pc = "returned"
     /\ calls'[p] # calls[p])
    => calls'[p].out # ProfileConflict

C19_ConflictOnlyWithOthers ==
    [][\A p \in Procs : C19_CheckStep(p) /\ C19_OtherStep(p)]_vars

(* one request was refused for the email of another account, while another
   that asks for the username and email its account has passed the check *)
C19_Witness ==
    \E p \in Procs, q \in Procs :
        /\ Returned(p, "updateProfile")
        /\ calls[p].out = ProfileConflict
        /\ calls[p].req.updateData.username = None
        /\ \E i \in Ids : /\ i # calls[p].req.userId
                          /\ Some(users[i].email) = calls[p].req.updateData.email
        /\ calls[q].pc = "update_profile_save"
        /\ calls[q].req.updateData.username = Some(users[calls[q].req.userId].username)
        /\ calls[q].req.updateData.email = Some(users[calls[q].req.userId].email)

(* C20: getProfile returns id, username, email, walletAddress, isVerified
   and createdAt of the account with the given id and no other column, or
   throws User not found when there is no such account; it writes nothing. *)
C20_Step(p) ==
    LET i == calls'[p].req.userId
    IN (Begins(p, "getProfile") /\ GetProfileFind(p, i)) =>
           /\ calls'[p].pc = "returned"
           /\ UNCHANGED <<users, now, rand, failedCalls, tokenLog>>
           /\ IF i \in Ids
              THEN calls'[p].out =
                       [success |-> TRUE,
                        user |-> [id |-> i, username |-> users[i].username,
                                  email |-> users[i].email,
                                  walletAddress |-> users[i].walletAddress,
                                  isVerified |-> users[i].isVerified,
                                  createdAt |-> users[i].createdAt]]
              ELSE calls'[p].out =
                       [success |-> FALSE, context |-> "Failed to get profile",
                        message |-> "User not found"]

C21_Step(p) ==
    (Begins(p, "login") /\ LoginFind(p, calls'[p].req.credentials)) =>
        \A i \in AccountOf(calls'[p].req.credentials.email) :
            LockPending(i) =>
                LET left == Val(users[i].lockUntil) - now
                    m == calls'[p].out.minutes
                IN /\ calls'[p].out.message = "Account is locked"
                   /\ (m - 1) * 60000 < left
                   /\ left <= m * 60000
                   /\ m \in 1..15
                   /\ left = 900000 => m = 15

C21_LockMinutes == [][\A p \in Procs : C21_Step(p)]_vars

(* a login met the lock with 5 min 40 s left and was told 6 minutes *)
C21_Witness ==
    \E p \in Procs, i \in Ids :
        /\ Returned(p, "login")
        /\ ~calls[p].out.success
        /\ calls[p].out.message = "Account is locked"
        /\ users[i].lockUntil # None
        /\ Val(users[i].lockUntil) - now = 340000
        /\ calls[p].out.minutes = 6

(* C22: the two kinds of token are not interchangeable: verifyToken accepts
   no refresh token (a token whose payload is the id alone), and
   refreshToken accepts no access token. *)
C22_NotInterchangeable ==
    \A p \in Procs :
        /\ (Returned(p, "verifyToken") /\ calls[p].out.success) =>
               DOMAIN calls[p].req.token.payload # {"id"}
        /\ (Returned(p, "refreshToken") /\ calls[p].out.success) =>
               DOMAIN calls[p].req.refreshToken.payload = {"id"}

(* C23: a login that reaches the password check (the account is not locked)
   succeeds if and only if the password supplied equals the password the
   account was given last by register, resetPassword or changePassword;
   with any other password it throws Invalid credentials. *)
C23_Step(p) ==
    LET i == calls[p].user.id
    IN (calls[p].pc = "login_compare" /\ LoginCompare(p)) =>
           IF calls[p].req.credentials.password = Val(tokenLog.password[i])
           THEN calls'[p].out.success
           ELSE calls'[p].out = InvalidCredentials

C23_PasswordBinding == [][\A p \in Procs : C23_Step(p)]_vars

(***************************************************************************)
(* The rate limiter.  requestCounts is the Map of the module, from a       *)
(* client to its count and resetTime; passed records what the middleware   *)
(* did: the times at which it called next() for each client, and its last  *)
(* response.                                                               *)
(***************************************************************************)

(* Math.ceil(ms / 1000) *)
CeilSeconds(ms) == IF ms <= 0 THEN 0 - ((0 - ms) \div 1000)
                   ELSE (ms + 999) \div 1000

(* the entries the clean-up loop leaves in the Map *)
CleanUp(map) ==
    [k \in Clients |->
        IF map[k] # None /\ Val(map[k]).resetTime < now THEN None ELSE map[k]]

PassedOn(clientId) ==
    [times |-> [passed.times EXCEPT ![clientId] = Append(@, now)],
     res |-> Some([client |-> clientId, status |-> "next"])]

TooManyRequests(clientId, clientData) ==
    [times |-> passed.times,
     res |-> Some([client |-> clientId, status |-> 429,
                   message |-> "Too many requests. Please try again later.",
                   retryAfter |-> CeilSeconds(clientData.resetTime - now)])]

TotalPassed ==
    Len(passed.times["10.0.0.1"]) + Len(passed.times["10.0.0.2"])

(* the middleware rateLimiter(windowMs, maxRequests) returns, on a request
   of clientId *)
rateLimiter(windowMs, maxRequests, clientId) ==
    LET cleaned == CleanUp(requestCounts)
        clientData == cleaned[clientId]
    IN /\ TotalPassed < MaxPassed
       /\ IF clientData = None \/ Val(clientData).resetTime < now
          THEN /\ requestCounts' =
                      [cleaned EXCEPT ![clientId] =
                          Some([count |-> 1, resetTime |-> now + windowMs])]
               /\ passed' = PassedOn(clientId)
          ELSE IF Val(clientData).count >= maxRequests
          THEN /\ requestCounts' = cleaned
               /\ passed' = TooManyRequests(clientId, Val(clientData))
          ELSE /\ requestCounts' =
                      [cleaned EXCEPT ![clientId] =
                          Some([Val(clientData) EXCEPT !.count = @ + 1])]
               /\ passed' = PassedOn(clientId)
       /\ UNCHANGED <<auth, now, market, tx, ipr, pinningJob, timers>>

strictRateLimiter == \E clientId \in Clients :
    rateLimiter(strictWindowMs, strictMaxRequests, clientId)

(* The clock within a rate window: a tick is two thirds of the window *)
WindowStep == (2 * strictWindowMs) \div 3

TickWindow ==
    /\ now < MaxWindows * WindowStep
    /\ now' = now + WindowStep
    /\ UNCHANGED <<auth, others>>

NextLimiter ==
    \/ strictRateLimiter
    \/ TickWindow

SpecLimiter == Init /\ [][NextLimiter]_vars

(* C24: of the requests of one client that strictRateLimiter passes on to
   next(), at most maxRequests fall in any interval of length windowMs: any
   maxRequests + 1 of them span windowMs or more. *)
C24_SlidingWindow ==
    \A k \in Clients :
        \A i, j \in 1..Len(passed.times[k]) :
            (j - i >= strictMaxRequests) =>
                passed.times[k][j] - passed.times[k][i] >= strictWindowMs

(* within one window of the Map, the count stays within maxRequests *)
CountWithinWindow ==
    \A k \in Clients :
        requestCounts[k] # None =>
            Val(requestCounts[k]).count \in 1..strictMaxRequests

-----------------------------------------------------------------------------
(* a lock of account i that has run out *)
LockExpired(i) == ~IsNull(users[i].lockUntil) /\ Val(users[i].lockUntil) <= now

(* the request that p completes in this step *)
Completes(p, op) ==
    /\ calls[p].pc # "returned"
    /\ calls'[p].pc = "returned"
    /\ calls'[p].req.op = op

(* C25: the expiry of a lock does not reset the counter: an account whose
   lock has run out still has failedLoginAttempts >= 5, the next login with
   a wrong password throws Invalid credentials, saves the counter + 1 and
   locks the account for a further 15 minutes, and the counter decreases
   only to 0 and only in a successful login, resetPassword or
   changePassword. *)
C25_Step(p) ==
    LET user == calls[p].user
        i == user.id
    IN /\ \A k \in Ids : LockExpired(k) => users[k].failedLoginAttempts >= 5
       /\ (/\ calls[p].pc = "login_compare"
           /\ LockExpired(i)
           /\ ~BcryptCompare(calls[p].req.credentials.password, user.password)
           /\ LoginCompare(p))
          => /\ calls'[p].out = InvalidCredentials
             /\ users'[i].failedLoginAttempts = users[i].failedLoginAttempts + 1
             /\ users'[i].lockUntil = Some(now + 900000)
       /\ \A k \in Ids :
              (/\ users'[k].failedLoginAttempts < users[k].failedLoginAttempts
               /\ calls'[p] # calls[p])
              => /\ users'[k].failedLoginAttempts = 0
                 /\ \/ Completes(p, "login")
                    \/ Completes(p, "resetPassword")
                    \/ Completes(p, "changePassword")
                 /\ calls'[p].out.success

C25_ExpiryKeepsCounter == [][\A p \in Procs : C25_Step(p)]_vars

(* a wrong-password login found the lock run out and the counter at 5, and
   left the counter at 6 and the account locked for 15 minutes from now *)
C25_Witness ==
    \E p \in Procs :
        /\ Returned(p, "login")
        /\ calls[p].out = InvalidCredentials
        /\ "user" \in DOMAIN calls[p]
        /\ calls[p].user.failedLoginAttempts = 5
        /\ ~IsNull(calls[p].user.lockUntil)
        /\ Val(calls[p].user.lockUntil) <= now
        /\ users[calls[p].user.id].failedLoginAttempts = 6
        /\ users[calls[p].user.id].lockUntil = Some(now + 900000)

(* C26: in every state of every account, lockUntil is non-null only if
   failedLoginAttempts >= 5, and failedLoginAttempts is never negative;
   a step that writes one of the two lockout fields leaves both as one
   write sets them: 0 and null, or a count below 5 and null, or a count of
   5 or more and a lock of 15 minutes from now. *)
C26_Inv ==
    \A i \in Ids :
        /\ ~IsNull(users[i].lockUntil) => users[i].failedLoginAttempts >= 5
        /\ users[i].failedLoginAttempts >= 0

C26_Write ==
    \A i \in Ids :
        (\/ users'[i].failedLoginAttempts # users[i].failedLoginAttempts
         \/ users'[i].lockUntil # users[i].lockUntil)
        => \/ /\ users'[i].failedLoginAttempts \in 0..4
              /\ users'[i].lockUntil = None
           \/ /\ users'[i].failedLoginAttempts >= 5
              /\ users'[i].lockUntil = Some(now + 900000)

C26_LockoutFieldsPaired == []C26_Inv /\ [][C26_Write]_vars

(* a lock that has run out was cleared, with the counter, by a successful
   login *)
C26_Witness ==
    \E p \in Procs :
        /\ Returned(p, "login")
        /\ calls[p].out.success
        /\ "user" \in DOMAIN calls[p]
        /\ ~IsNull(calls[p].user.lockUntil)
        /\ calls[p].user.failedLoginAttempts >= 5
        /\ users[calls[p].user.id].failedLoginAttempts = 0
        /\ users[calls[p].user.id].lockUntil = None

-----------------------------------------------------------------------------
(* C27: a successful login and a successful changePassword leave
   resetPasswordToken and resetPasswordExpires of every account as they
   were; resetPassword with the token an account holds, before its expiry,
   is accepted whatever happened since the token was issued, and saves the
   hash of its new password over the password chosen meanwhile. *)
ResetFieldsKept ==
    \A i \in Ids :
        /\ users'[i].resetPasswordToken = users[i].resetPasswordToken
        /\ users'[i].resetPasswordExpires = users[i].resetPasswordExpires

C27_KeepStep(p) ==
    /\ (/\ calls[p].pc = "login_compare"
        /\ LoginCompare(p)
        /\ calls'[p].out.success) => ResetFieldsKept
    /\ (/\ calls[p].pc = "change_password_compare"
        /\ ChangePasswordCompare(p)
        /\ calls'[p].out.success) => ResetFieldsKept

C27_ResetStep(p) ==
    /\ (/\ Begins(p, "resetPassword")
        /\ ResetFind(p, calls'[p].req.token, calls'[p].req.newPassword)
        /\ \E i \in Ids : /\ users[i].resetPasswordToken = Some(calls'[p].req.token)
                          /\ users[i].resetPasswordExpires # None
                          /\ Val(users[i].resetPasswordExpires) > now)
       => calls'[p].pc = "reset_update"
    /\ (calls[p].pc = "reset_update" /\ ResetUpdate(p))
       => /\ calls'[p].out.success
          /\ users'[calls[p].user.id].password =
                 [alg |-> "bcrypt", cost |-> 12,
                  of |-> BcryptKey(calls[p].req.newPassword)]

C27_ResetSurvivesChange ==
    [][\A p \in Procs : C27_KeepStep(p) /\ C27_ResetStep(p)]_vars

(* the password was changed while a reset token was pending, and the token
   was then accepted: the account has the password of the reset, not the
   one chosen in changePassword *)
C27_Witness ==
    /\ Returned(1, "changePassword")
    /\ calls[1].out.success
    /\ "user" \in DOMAIN calls[1]
    /\ ~IsNull(calls[1].user.resetPasswordToken)
    /\ Returned(2, "resetPassword")
    /\ calls[2].out.success
    /\ calls[2].req.token = Val(calls[1].user.resetPasswordToken)
    /\ calls[2].req.newPassword # calls[1].req.newPassword
    /\ users[1].password.of = BcryptKey(calls[2].req.newPassword)
    /\ users[1].resetPasswordToken = None

(***************************************************************************)
(* CreativeWorksMarketplace.  market is the storage of the contract:       *)
(* totalWorksCount, allWorks (the works 1..totalWorksCount) and locked.    *)
(* tx is the transaction: the stack of acquireWork calls that wait in      *)
(* oldOwner.call, each with the storage to restore if it reverts, the      *)
(* receipt of the last transaction, and for each work the number of        *)
(* acquireWork calls that succeeded.                                       *)
(***************************************************************************)

Addresses == {"0xA", "0xB"}
WorkIds == 0..MaxWorks
Payments == {1, 2}
Listings ==
    [title : {"", "Song"}, summary : {"A song"}, licenseAgreement : {"CC-BY"},
     askingPrice : {0, 1}]

(* the first require of publishWork that fails, if one does *)
PublishRevert(listing) ==
    IF ~(listing.askingPrice > 0) THEN Some("Price must be a positive value")
    ELSE IF ~(Len(listing.title) > 0) THEN Some("Title cannot be empty")
    ELSE IF ~(Len(listing.summary) > 0) THEN Some("Summary cannot be empty")
    ELSE IF ~(Len(listing.licenseAgreement) > 0)
    THEN Some("License agreement cannot be empty")
    ELSE None

(* storage after the body of publishWork, called by sender *)
PublishEffects(m, sender, listing) ==
    LET id == m.totalWorksCount + 1
    IN [m EXCEPT !.totalWorksCount = id,
                 !.allWorks = Append(@,
                     [workId |-> id, originalCreator |-> sender,
                      currentOwner |-> sender, title |-> listing.title,
                      summary |-> listing.summary,
                      licenseAgreement |-> listing.licenseAgreement,
                      askingPrice |-> listing.askingPrice,
                      isUnavailable |-> FALSE])]

(* mutant: a work that was sold may be sold again *)
AcquireRevert_SoldAgain(m, sender, _workId, value) ==
    IF m.locked THEN Some("No reentrancy allowed")
    ELSE IF ~(_workId > 0 /\ _workId <= m.totalWorksCount)
    THEN Some("Work ID is invalid")
    ELSE IF value # m.allWorks[_workId].askingPrice
    THEN Some("Payment amount is incorrect")
    ELSE IF sender = m.allWorks[_workId].originalCreator
    THEN Some("Creator cannot buy their own work")
    ELSE None

(* the first require of acquireWork that fails before the payment, if one
   does: that of noReentrancy first *)
AcquireRevert(m, sender, _workId, value) ==
    IF m.locked THEN Some("No reentrancy allowed")
    ELSE IF ~(_workId > 0 /\ _workId <= m.totalWorksCount)
    THEN Some("Work ID is invalid")
    ELSE IF m.allWorks[_workId].isUnavailable
    THEN Some("This work has already been sold")
    ELSE IF value # m.allWorks[_workId].askingPrice
    THEN Some("Payment amount is incorrect")
    ELSE IF sender = m.allWorks[_workId].originalCreator
    THEN Some("Creator cannot buy their own work")
    ELSE None

(* storage when acquireWork reaches oldOwner.call *)
AcquireEffects(m, sender, _workId) ==
    [m EXCEPT !.locked = TRUE,
              !.allWorks[_workId].isUnavailable = TRUE,
              !.allWorks[_workId].currentOwner = sender]

(* the call of acquireWork that waits in oldOwner.call *)
AcquireFrame(m, sender, _workId, value) ==
    [workId |-> _workId, sender |-> sender, value |-> value,
     oldOwner |-> m.allWorks[_workId].currentOwner,
     storage |-> m, acquired |-> tx.acquired, inner |-> <<>>]

Receipt(fn, sender, _workId, value, status, inner) ==
    [fn |-> fn, sender |-> sender, workId |-> _workId, value |-> value,
     status |-> status, inner |-> inner]

InTransaction == tx.stack # <<>>
Top == tx.stack[Len(tx.stack)]

(* the outcome of a call is the receipt of the transaction, or within a
   payment callback one more inner call of the call that waits *)
Outcome(stack, receipt) ==
    IF stack = <<>>
    THEN [tx EXCEPT !.stack = <<>>, !.receipt = Some(receipt)]
    ELSE [tx EXCEPT !.stack = [stack EXCEPT ![Len(stack)].inner = Append(@, receipt)]]

(* publishWork as a transaction of sender *)
publishWork(sender, listing) ==
    /\ ~InTransaction
    /\ market.totalWorksCount < MaxWorks
    /\ LET revert == PublishRevert(listing)
       IN IF revert # None
          THEN /\ market' = market
               /\ tx' = Outcome(<<>>, Receipt("publishWork", sender, 0, 0, Val(revert), <<>>))
          ELSE /\ market' = PublishEffects(market, sender, listing)
               /\ tx' = Outcome(<<>>, Receipt("publishWork", sender,
                                              market.totalWorksCount + 1, 0,
                                              "success", <<>>))
    /\ UNCHANGED <<auth, now, requestCounts, passed, ipr, pinningJob, timers>>

(* acquireWork as a transaction of sender with msg.value = value, up to
   oldOwner.call *)
acquireWork(sender, _workId, value) ==
    /\ ~InTransaction
    /\ LET revert == AcquireRevert(market, sender, _workId, value)
       IN IF revert # None
          THEN /\ market' = market
               /\ tx' = Outcome(<<>>, Receipt("acquireWork", sender, _workId, value,
                                              Val(revert), <<>>))
          ELSE /\ market' = AcquireEffects(market, sender, _workId)
               /\ tx' = [tx EXCEPT !.stack = <<AcquireFrame(market, sender, _workId, value)>>,
                                   !.receipt = None]
    /\ UNCHANGED <<auth, now, requestCounts, passed, ipr, pinningJob, timers>>

(* the seller, in the payment callback, calls acquireWork *)
ReenterAcquireWork(_workId, value) ==
    /\ InTransaction
    /\ Len(Top.inner) < MaxInner
    /\ LET sender == Top.oldOwner
           revert == AcquireRevert(market, sender, _workId, value)
       IN IF revert # None
          THEN /\ market' = market
               /\ tx' = Outcome(tx.stack, Receipt("acquireWork", sender, _workId,
                                                  value, Val(revert), <<>>))
          ELSE /\ market' = AcquireEffects(market, sender, _workId)
               /\ tx' = [tx EXCEPT !.stack =
                            Append(@, AcquireFrame(market, sender, _workId, value))]
    /\ UNCHANGED <<auth, now, requestCounts, passed, ipr, pinningJob, timers>>

(* the seller, in the payment callback, calls publishWork *)
ReenterPublishWork(listing) ==
    /\ InTransaction
    /\ Len(Top.inner) < MaxInner
    /\ market.totalWorksCount < MaxWorks
    /\ LET sender == Top.oldOwner
           revert == PublishRevert(listing)
       IN IF revert # None
          THEN /\ market' = market
               /\ tx' = Outcome(tx.stack, Receipt("publishWork", sender, 0, 0,
                                                  Val(revert), <<>>))
          ELSE /\ market' = PublishEffects(market, sender, listing)
               /\ tx' = Outcome(tx.stack, Receipt("publishWork", sender,
                                                  market.totalWorksCount + 1, 0,
                                                  "success", <<>>))
    /\ UNCHANGED <<auth, now, requestCounts, passed, ipr, pinningJob, timers>>

(* oldOwner.call returns: with sent, the call ends and noReentrancy
   releases the lock; without, require(sent) reverts the call and all it
   and its callback wrote *)
PaymentReturns(sent) ==
    /\ InTransaction
    /\ LET call == Top
           rest == SubSeq(tx.stack, 1, Len(tx.stack) - 1)
       IN IF sent
          THEN /\ market' = [market EXCEPT !.locked = FALSE]
               /\ tx' = [Outcome(rest, Receipt("acquireWork", call.sender, call.workId,
                                               call.value, "success", call.inner))
                            EXCEPT !.acquired[call.workId] = @ + 1]
          ELSE /\ market' = call.storage
               /\ tx' = [Outcome(rest, Receipt("acquireWork", call.sender, call.workId,
                                               call.value, "Failed to send Ether", <<>>))
                            EXCEPT !.acquired = call.acquired]
    /\ UNCHANGED <<auth, now, requestCounts, passed, ipr, pinningJob, timers>>

NextMarket ==
    \/ \E sender \in Addresses, listing \in Listings : publishWork(sender, listing)
    \/ \E sender \in Addresses, _workId \in WorkIds, value \in Payments :
           acquireWork(sender, _workId, value)
    \/ \E _workId \in WorkIds, value \in Payments : ReenterAcquireWork(_workId, value)
    \/ \E listing \in Listings : ReenterPublishWork(listing)
    \/ \E sent \in BOOLEAN : PaymentReturns(sent)

SpecMarket == Init /\ [][NextMarket]_vars

(* C28: every published work is acquired at most once.  Once an
   acquireWork(id) has succeeded, isUnavailable of the work stays true, its
   currentOwner does not change, and every acquireWork(id) reverts and
   writes nothing; an acquireWork the seller makes from the payment
   callback, while the first call waits, reverts too; and the call that
   succeeds paid askingPrice and came from another address than the
   original creator, who is the owner it bought from. *)
C28_AtMostOnce ==
    \A id \in 1..MaxWorks :
        /\ tx.acquired[id] <= 1
        /\ tx.acquired[id] = 1 =>
               /\ id <= market.totalWorksCount
               /\ market.allWorks[id].isUnavailable

C28_Sold(id) ==
    tx.acquired[id] = 1 =>
        /\ market'.allWorks[id].isUnavailable
        /\ market'.allWorks[id].currentOwner = market.allWorks[id].currentOwner
        /\ \A sender \in Addresses, value \in Payments :
               acquireWork(sender, id, value) =>
                   /\ market' = market
                   /\ tx'.stack = <<>>
                   /\ Val(tx'.receipt).status = "This work has already been sold"

C28_Reentrant ==
    \A _workId \in WorkIds, value \in Payments :
        ReenterAcquireWork(_workId, value) =>
            /\ market' = market
            /\ Len(tx'.stack) = Len(tx.stack)
            /\ tx'.acquired = tx.acquired
            /\ Top'.inner[Len(Top'.inner)].status = "No reentrancy allowed"

C28_Paid ==
    \A id \in 1..MaxWorks :
        tx'.acquired[id] > tx.acquired[id] =>
            /\ PaymentReturns(TRUE)
            /\ Top.workId = id
            /\ Top.value = market.allWorks[id].askingPrice
            /\ Top.sender # market.allWorks[id].originalCreator
            /\ Top.oldOwner = market.allWorks[id].originalCreator
            /\ market'.allWorks[id].currentOwner = Top.sender

C28_AcquiredOnce ==
    /\ []C28_AtMostOnce
    /\ [][C28_Reentrant /\ C28_Paid /\ \A id \in 1..MaxWorks : C28_Sold(id)]_vars

(* a work was acquired; in the payment callback the seller called
   acquireWork for the same work with the asking price, and that call
   reverted *)
C28_Witness ==
    /\ tx.stack = <<>>
    /\ tx.receipt # None
    /\ LET receipt == Val(tx.receipt)
       IN /\ receipt.fn = "acquireWork"
          /\ receipt.status = "success"
          /\ tx.acquired[receipt.workId] = 1
          /\ \E k \in 1..Len(receipt.inner) :
                 /\ receipt.inner[k].fn = "acquireWork"
                 /\ receipt.inner[k].workId = receipt.workId
                 /\ receipt.inner[k].value = receipt.value
                 /\ receipt.inner[k].status = "No reentrancy allowed"

(***************************************************************************)
(* IPRManagement.  ipr is the storage of the contract: ipCount, ips and    *)
(* ownershipHistory (of the ids 1..ipCount), and the receipt of the last   *)
(* transaction.                                                            *)
(***************************************************************************)

ZeroAddress == "0x0"
Holders == {"0xA", "0xB"}
IpIds == 0..MaxIPs
Registrations ==
    [title : {"", "Loom"}, ipType : {"", "Patent"}, description : {"Draft"},
     ipfsHash : {"Qm1"}]
Descriptions == {"", "Revised"}

IpReceipt(fn, sender, _id, status) ==
    Some([fn |-> fn, sender |-> sender, id |-> _id, status |-> status])

(* mutant: the caller is not compared with the owner *)
onlyOwner_AnyCaller(i, sender, _id) ==
    IF ~(_id > 0 /\ _id <= i.ipCount) THEN Some("Invalid IP ID")
    ELSE None

(* the modifier onlyOwner(_id): the require that fails, if one does *)
onlyOwner(i, sender, _id) ==
    IF ~(_id > 0 /\ _id <= i.ipCount) THEN Some("Invalid IP ID")
    ELSE IF sender # i.ips[_id].owner THEN Some("Only owner can perform this action")
    ELSE None

Transfers ==
    LET RECURSIVE Sum(_)
        Sum(k) == IF k = 0 THEN 0
                  ELSE Len(ipr.ownershipHistory[k]) - 1 + Sum(k - 1)
    IN Sum(ipr.ipCount)

registerIP(sender, registration) ==
    /\ ipr.ipCount < MaxIPs
    /\ IF ~(Len(registration.title) > 0)
       THEN ipr' = [ipr EXCEPT !.receipt =
                        IpReceipt("registerIP", sender, 0, "Title cannot be empty")]
       ELSE IF ~(Len(registration.ipType) > 0)
       THEN ipr' = [ipr EXCEPT !.receipt =
                        IpReceipt("registerIP", sender, 0, "IP type cannot be empty")]
       ELSE LET id == ipr.ipCount + 1
            IN ipr' = [ipCount |-> id,
                       ips |-> Append(ipr.ips,
                           [id |-> id, title |-> registration.title,
                            ipType |-> registration.ipType, owner |-> sender,
                            description |-> registration.description,
                            ipfsHash |-> registration.ipfsHash,
                            timestamp |-> now \div 1000]),
                       ownershipHistory |-> Append(ipr.ownershipHistory, <<sender>>),
                       receipt |-> IpReceipt("registerIP", sender, id, "success")]
    /\ UNCHANGED <<auth, now, requestCounts, passed, market, tx, pinningJob, timers>>

transferOwnership(sender, _id, _newOwner) ==
    /\ Transfers < MaxTransfers
    /\ LET revert == onlyOwner(ipr, sender, _id)
       IN IF revert # None
          THEN ipr' = [ipr EXCEPT !.receipt =
                           IpReceipt("transferOwnership", sender, _id, Val(revert))]
          ELSE IF _newOwner = ZeroAddress
          THEN ipr' = [ipr EXCEPT !.receipt =
                           IpReceipt("transferOwnership", sender, _id,
                                     "New owner cannot be zero address")]
          ELSE ipr' = [ipr EXCEPT !.ips[_id].owner = _newOwner,
                                  !.ownershipHistory[_id] = Append(@, _newOwner),
                                  !.receipt = IpReceipt("transferOwnership", sender,
                                                        _id, "success")]
    /\ UNCHANGED <<auth, now, requestCounts, passed, market, tx, pinningJob, timers>>

updateDescription(sender, _id, _newDescription, _newIpfsHash) ==
    /\ LET revert == onlyOwner(ipr, sender, _id)
       IN IF revert # None
          THEN ipr' = [ipr EXCEPT !.receipt =
                           IpReceipt("updateDescription", sender, _id, Val(revert))]
          ELSE IF ~(Len(_newDescription) > 0)
          THEN ipr' = [ipr EXCEPT !.receipt =
                           IpReceipt("updateDescription", sender, _id,
                                     "Description cannot be empty")]
          ELSE ipr' = [ipr EXCEPT !.ips[_id].description = _newDescription,
                                  !.ips[_id].ipfsHash = _newIpfsHash,
                                  !.receipt = IpReceipt("updateDescription", sender,
                                                        _id, "success")]
    /\ UNCHANGED <<auth, now, requestCounts, passed, market, tx, pinningJob, timers>>

NextIPR ==
    \/ \E sender \in Holders, registration \in Registrations :
           registerIP(sender, registration)
    \/ \E sender \in Holders, _id \in IpIds, _newOwner \in Holders \cup {ZeroAddress} :
           transferOwnership(sender, _id, _newOwner)
    \/ \E sender \in Holders, _id \in IpIds, _newDescription \in Descriptions :
           updateDescription(sender, _id, _newDescription, "Qm2")

SpecIPR == Init /\ [][NextIPR]_vars

(* C29: for every registered id, ownershipHistory[id] is not empty and its
   last entry is ips[id].owner; registerIP makes the caller the first entry,
   and the history changes only by appending, so the first entry remains
   the registrant; the owner, the description and the history of a
   registered id change only in a call that its current owner makes for
   that id. *)
C29_Ledger ==
    /\ Len(ipr.ips) = ipr.ipCount
    /\ Len(ipr.ownershipHistory) = ipr.ipCount
    /\ \A id \in 1..ipr.ipCount :
           /\ ipr.ownershipHistory[id] # <<>>
           /\ ipr.ownershipHistory[id][Len(ipr.ownershipHistory[id])] = ipr.ips[id].owner
           /\ ipr.ips[id].id = id

C29_Step ==
    /\ ipr'.ipCount >= ipr.ipCount
    /\ \A id \in 1..ipr'.ipCount :
           IF id > ipr.ipCount
           THEN /\ Val(ipr'.receipt).fn = "registerIP"
                /\ ipr'.ownershipHistory[id] = <<Val(ipr'.receipt).sender>>
                /\ ipr'.ips[id].owner = Val(ipr'.receipt).sender
           ELSE /\ \/ ipr'.ownershipHistory[id] = ipr.ownershipHistory[id]
                   \/ ipr'.ownershipHistory[id] =
                          Append(ipr.ownershipHistory[id], ipr'.ips[id].owner)
                /\ (\/ ipr'.ips[id].owner # ipr.ips[id].owner
                    \/ ipr'.ips[id].description # ipr.ips[id].description
                    \/ ipr'.ownershipHistory[id] # ipr.ownershipHistory[id])
                   => /\ Val(ipr'.receipt).sender = ipr.ips[id].owner
                      /\ Val(ipr'.receipt).id = id
                      /\ Val(ipr'.receipt).status = "success"

C29_OwnershipLedger == []C29_Ledger /\ [][C29_Step]_vars

(* a property changed hands, and its registrant, owner no more, was then
   refused *)
C29_Witness ==
    /\ ipr.receipt # None
    /\ Val(ipr.receipt).status = "Only owner can perform this action"
    /\ LET id == Val(ipr.receipt).id
       IN /\ Len(ipr.ownershipHistory[id]) >= 2
          /\ Val(ipr.receipt).sender = ipr.ownershipHistory[id][1]
          /\ ipr.ips[id].owner # ipr.ownershipHistory[id][1]

(***************************************************************************)
(* PinningJob.  pinningJob is the instance: isRunning and intervalId.      *)
(* timers is what the instance acts on: the intervals that setInterval     *)
(* scheduled and clearInterval has not cleared, the id the next interval   *)
(* gets, the number of calls of runPinningJob, and the last line start or  *)
(* stop logged.  start and stop are synchronous: runPinningJob is async    *)
(* and catches its errors, so its call returns a promise at once.          *)
(***************************************************************************)

Intervals == {300000, 1000}

(* mutant: start does not look at isRunning *)
AlreadyRunning_Never(job) == FALSE

(* the test `if (this.isRunning)` of start *)
AlreadyRunning(job) == job.isRunning

start(intervalMs) ==
    /\ IF AlreadyRunning(pinningJob)
       THEN /\ timers' = [timers EXCEPT !.console = Some("Pinning job is already running")]
            /\ UNCHANGED pinningJob
       ELSE /\ timers.nextId <= MaxTimers
            /\ timers.runs < MaxRuns
            /\ pinningJob' = [isRunning |-> TRUE, intervalId |-> Some(timers.nextId)]
            /\ timers' = [nextId |-> timers.nextId + 1,
                          active |-> timers.active \cup
                                       {[id |-> timers.nextId, intervalMs |-> intervalMs]},
                          runs |-> timers.runs + 1,
                          console |-> Some("Starting IPFS pinning job")]
    /\ UNCHANGED <<auth, now, requestCounts, passed, market, tx, ipr>>

stop ==
    /\ IF ~pinningJob.isRunning
       THEN /\ timers' = [timers EXCEPT !.console = Some("Pinning job is not running")]
            /\ UNCHANGED pinningJob
       ELSE /\ pinningJob' = [isRunning |-> FALSE, intervalId |-> None]
            /\ timers' = [timers EXCEPT
                   !.active = IF pinningJob.intervalId # None
                              THEN {t \in @ : t.id # Val(pinningJob.intervalId)}
                              ELSE @,
                   !.console = Some("Stopping IPFS pinning job")]
    /\ UNCHANGED <<auth, now, requestCounts, passed, market, tx, ipr>>

(* an interval that is scheduled comes round: its callback calls
   runPinningJob *)
IntervalFires(id) ==
    /\ \E t \in timers.active : t.id = id
    /\ timers.runs < MaxRuns
    /\ timers' = [timers EXCEPT !.runs = @ + 1]
    /\ UNCHANGED <<auth, now, requestCounts, passed, market, tx, ipr, pinningJob>>

getStatus ==
    [isRunning |-> pinningJob.isRunning,
     intervalId |-> IF pinningJob.intervalId # None THEN "active" ELSE "inactive"]

NextJob ==
    \/ \E intervalMs \in Intervals : start(intervalMs)
    \/ stop
    \/ \E id \in 1..MaxTimers : IntervalFires(id)

SpecJob == Init /\ [][NextJob]_vars

(* C30: the job keeps at most one interval: isRunning is true exactly when
   intervalId is the id of an interval that is scheduled, which is then the
   only one, and getStatus reports the two alike; start while running
   schedules no interval, calls runPinningJob no more and leaves the
   instance as it is, and so does stop while not running. *)
C30_Inv ==
    /\ pinningJob.isRunning <=>
           /\ pinningJob.intervalId # None
           /\ \E t \in timers.active : t.id = Val(pinningJob.intervalId)
    /\ Cardinality(timers.active) <= 1
    /\ ~pinningJob.isRunning => timers.active = {}
    /\ getStatus.isRunning <=> getStatus.intervalId = "active"

C30_Idle ==
    /\ \A intervalMs \in Intervals :
           (pinningJob.isRunning /\ start(intervalMs)) =>
               /\ pinningJob' = pinningJob
               /\ timers'.active = timers.active
               /\ timers'.runs = timers.runs
    /\ (~pinningJob.isRunning /\ stop) =>
           /\ pinningJob' = pinningJob
           /\ timers'.active = timers.active
           /\ timers'.runs = timers.runs

C30_OneTimer == []C30_Inv /\ [][C30_Idle]_vars

(* the job was stopped and started again, and then started once more while
   running: one interval is scheduled, the second of the two *)
C30_Witness ==
    /\ pinningJob.isRunning
    /\ timers.console = Some("Pinning job is already running")
    /\ pinningJob.intervalId = Some(2)
    /\ timers.active = {t \in timers.active : t.id = 2}
    /\ timers.runs >= 2

=============================================================================
